---- MODULE Spec2Model ----
(***************************************************************************)
(* The control core of the voice assistant firmware                        *)
(* (main/application.cc): the event-group control loop Application::Run,   *)
(* the deferred-callable queue Application::Schedule, the event handlers,  *)
(* and the contexts that feed them (session I/O callbacks, buttons, audio  *)
(* callbacks, the activation worker).                                      *)
(*                                                                         *)
(* app    the Application object's fields, the collaborators' state the    *)
(*        handlers read (session, audio service) and, as ghosts, the calls *)
(*        made by the last step (calls), a null-session dereference        *)
(*        (fault) and the end of the program (halted)                      *)
(* loop   the position of the control-loop thread inside Run               *)
(* ctx    the position of every other context inside Schedule              *)
(* worker the position of the activation worker inside ActivationTask      *)
(* budget how many more external events the environment may raise          *)
(* hist   ghost record of the callables handed to Schedule                 *)
(***************************************************************************)
EXTENDS Naturals, Integers, Sequences, FiniteSets, TLC

VARIABLES app, loop, ctx, worker, budget, hist

vars == <<app, loop, ctx, worker, budget, hist>>

\* ------------------------------------------------------------ bounds
\* External events the environment may raise in one run.
MaxEvents == 2
\* Direct calls of Schedule(f) with a tracked callable in one run.
MaxTasks == 3
\* Packets the audio service may hold in its send queue.
MaxPackets == 2
\* Clock ticks while the scheduler is exercised alone.
MaxTicks == 1

\* ------------------------------------------------------------ domains
DeviceStates ==
    {"unknown", "starting", "wifi_configuring", "idle", "connecting", "listening",
     "speaking", "upgrading", "activating", "audio_testing"}

ListeningModes == {"auto_stop", "manual_stop", "realtime"}

AecModes == {"off", "on_device_side", "on_server_side"}

\* The bits Run waits for (ALL_EVENTS).
ALL_EVENTS ==
    {"SCHEDULE", "SEND_AUDIO", "WAKE_WORD_DETECTED", "VAD_CHANGE", "CLOCK_TICK",
     "ERROR", "NETWORK_CONNECTED", "NETWORK_DISCONNECTED", "TOGGLE_CHAT",
     "START_LISTENING", "STOP_LISTENING", "ACTIVATION_DONE", "STATE_CHANGED"}

\* The order of the if-chain in the body of Run's while loop.
RunOrder ==
    <<"ERROR", "NETWORK_CONNECTED", "NETWORK_DISCONNECTED", "ACTIVATION_DONE",
      "STATE_CHANGED", "TOGGLE_CHAT", "START_LISTENING", "STOP_LISTENING",
      "SEND_AUDIO", "WAKE_WORD_DETECTED", "VAD_CHANGE", "SCHEDULE", "CLOCK_TICK">>

\* The contexts other than the control loop and the activation worker.
Contexts == {"io", "button", "api"}

\* The contexts that call Schedule directly while the scheduler is
\* exercised alone.
Producers == {"io", "api"}

\* What a null-session dereference may do: trap, or run on.
UbOutcomes == {"crash", "continue"}

\* ------------------------------------------------------------ primitives
\* Ghost: context c made the call op during this step; the loop's step also
\* records the flag whose if-block it ran, or the kind of the callable it ran.
Call(a, c, op) == [a EXCEPT !.calls = @ \cup {<<c, op>>}]

\* xEventGroupSetBits(event_group_, f). Ghosts: latest is the pending flag
\* that was set last, owed the flags set since their handler last ran.
SetBits(a, f) ==
    [a EXCEPT !.event_bits = @ \cup {f},
              !.latest = IF f \in a.event_bits THEN @ ELSE f,
              !.owed = @ \cup {f}]

\* The listener Initialize registers with the state machine.
StateChangeListener(a, c) == SetBits(Call(a, c, "notify"), "STATE_CHANGED")

\* DeviceStateMachine::TransitionTo: accepted unconditionally, listeners are
\* notified on a change of value only, the result tells whether it changed.
TransitionTo(a, s, c) ==
    IF a.device_state = s
    THEN Call(a, c, "TransitionTo=false")
    ELSE StateChangeListener(
             Call([a EXCEPT !.device_state = s], c, "TransitionTo=true"), c)

\* A SetDeviceState that writes the state and notifies by itself.
SetDeviceState_Renotify(a, s, c) ==
    StateChangeListener(
        [Call(a, c, IF a.device_state = s THEN "SetDeviceState(same)"
                    ELSE "SetDeviceState(new)")
            EXCEPT !.device_state = s],
        c)

\* Application::SetDeviceState, called by context c; the ghost call tells
\* whether the request is for the state the device holds.
SetDeviceState(a, s, c) ==
    TransitionTo(
        Call(a, c, IF a.device_state = s THEN "SetDeviceState(same)"
                   ELSE "SetDeviceState(new)"),
        s, c)

\* ------------------------------------------------------------ the session
\* protocol_ is null.
NoProtocol(a) == a.protocol = 0

\* protocol_->... with protocol_ null: undefined behaviour, recorded.
NullDeref(a, c) == [Call(a, c, "null_session") EXCEPT !.fault = TRUE]

\* protocol_->IsAudioChannelOpened().
IsAudioChannelOpened(a) == a.channel_opened

\* protocol_->OpenAudioChannel(): blocks, then succeeds (ok) or fails; a failing
\* session may report the failure through OnNetworkError as well (err).
OpenAudioChannel(a, c, ok, err) ==
    IF NoProtocol(a) THEN NullDeref(a, c)
    ELSE LET b == Call(a, c, "OpenAudioChannel") IN
         IF ok THEN [b EXCEPT !.channel_opened = TRUE]
         ELSE IF err THEN SetBits([b EXCEPT !.last_error = "open_failed"], "ERROR")
         ELSE b

\* protocol_->CloseAudioChannel(): returns at once; the closed callback of an
\* open channel is delivered later by the session's I/O context.
CloseAudioChannel(a, c) ==
    IF NoProtocol(a) THEN NullDeref(a, c)
    ELSE [Call(a, c, "CloseAudioChannel") EXCEPT
              !.channel_opened = FALSE,
              !.close_pending = @ \/ a.channel_opened]

\* Any other protocol_->op(...) call: no state of its own in this model.
SessionCall(a, c, op) == IF NoProtocol(a) THEN NullDeref(a, c) ELSE Call(a, c, op)

\* protocol_.reset(): the session object is destroyed.
ProtocolReset(a, c) ==
    [Call(a, c, "protocol_.reset") EXCEPT
         !.protocol = 0, !.channel_opened = FALSE, !.close_pending = FALSE]

\* ------------------------------------------------------------ audio service
EnableVoiceProcessing(a, on) == [a EXCEPT !.voice_processing = on]

EnableWakeWordDetection(a, on) == [a EXCEPT !.wake_word_detection = on]

EnableAudioTesting(a, on) == [a EXCEPT !.audio_testing = on]

\* Application::Alert: display and sound only.
Alert(a, c) == Call(a, c, "Alert")

\* ------------------------------------------------------------ helpers of the handlers
\* Application::AbortSpeaking.
AbortSpeaking(a, c) ==
    LET b == [a EXCEPT !.aborted = TRUE] IN
    IF NoProtocol(b) THEN b ELSE SessionCall(b, c, "SendAbortSpeaking")

\* Application::SetListeningMode.
SetListeningMode(a, mode, c) ==
    SetDeviceState([a EXCEPT !.listening_mode = mode], "listening", c)

\* A choice of mode that ignores the AEC option.
ModeForAec_AutoStop(a) == "auto_stop"

\* aec_mode_ == kAecOff ? kListeningModeAutoStop : kListeningModeRealtime.
ModeForAec(a) == IF a.aec_mode = "off" THEN "auto_stop" ELSE "realtime"

\* ------------------------------------------------------------ the handlers of Run
\* An error block that alerts and leaves the device state as it is.
HandleErrorEvent_AlertOnly(a) == Alert(a, "loop")

\* Run, MAIN_EVENT_ERROR.
HandleErrorEvent(a) == Alert(SetDeviceState(a, "idle", "loop"), "loop")

\* A network-connected handler that starts the activation in any state.
HandleNetworkConnectedEvent_AnyState(a) ==
    LET b == SetDeviceState(a, "activating", "loop") IN
    IF b.activation_task THEN b ELSE [b EXCEPT !.activation_task = TRUE]

\* Application::HandleNetworkConnectedEvent; the worker is created by the
\* step that runs it, when activation_task becomes TRUE.
HandleNetworkConnectedEvent(a) ==
    IF a.device_state \in {"starting", "wifi_configuring"}
    THEN LET b == SetDeviceState(a, "activating", "loop") IN
         IF b.activation_task THEN b ELSE [b EXCEPT !.activation_task = TRUE]
    ELSE a

\* A network-disconnected handler that only refreshes the status bar.
HandleNetworkDisconnectedEvent_Ignore(a) == a

\* Application::HandleNetworkDisconnectedEvent.
HandleNetworkDisconnectedEvent(a) ==
    IF a.device_state \in {"connecting", "listening", "speaking"}
    THEN CloseAudioChannel(a, "loop")
    ELSE a

\* Application::HandleActivationDoneEvent: ota_ is read and then released
\* (has_server_time_, which nothing reads, is left out).
HandleActivationDoneEvent(a) ==
    LET b == SetDeviceState(a, "idle", "loop") IN
    IF ~b.ota THEN [Call(b, "loop", "null_ota") EXCEPT !.fault = TRUE]
    ELSE [b EXCEPT !.ota = FALSE]

\* Application::HandleStateChangedEvent.
HandleStateChangedEvent(a) ==
    LET new_state == a.device_state
        b == [a EXCEPT !.clock_ticks = 0]
    IN
    CASE new_state \in {"unknown", "idle"} ->
            EnableWakeWordDetection(EnableVoiceProcessing(b, FALSE), TRUE)
      [] new_state = "listening" ->
            LET d == IF ~b.voice_processing
                     THEN EnableWakeWordDetection(
                              EnableVoiceProcessing(
                                  SessionCall(b, "loop", "SendStartListening"), TRUE),
                              FALSE)
                     ELSE b
            IN [d EXCEPT !.play_popup_on_listening = FALSE]
      [] new_state = "speaking" ->
            IF b.listening_mode # "realtime"
            THEN EnableWakeWordDetection(EnableVoiceProcessing(b, FALSE), b.afe_wake_word)
            ELSE b
      [] new_state = "wifi_configuring" ->
            EnableWakeWordDetection(EnableVoiceProcessing(b, FALSE), FALSE)
      [] OTHER -> b

\* The Idle branch shared by the toggle-chat and start-listening handlers:
\* open the channel when it is not open, then enter Listening in mode.
OpenThenListen(a, mode, c, ok, err) ==
    LET q == SessionCall(a, c, "IsAudioChannelOpened") IN
    IF ~IsAudioChannelOpened(q)
    THEN LET b == OpenAudioChannel(SetDeviceState(q, "connecting", c), c, ok, err) IN
         IF ~ok THEN b ELSE SetListeningMode(b, mode, c)
    ELSE SetListeningMode(q, mode, c)

\* A toggle-chat handler that sets Idle itself when it closes the channel.
HandleToggleChatEvent_IdleAtOnce(a, ok, err) ==
    LET state == a.device_state IN
    IF state = "activating" THEN SetDeviceState(a, "idle", "loop")
    ELSE IF state = "wifi_configuring"
    THEN SetDeviceState(EnableAudioTesting(a, TRUE), "audio_testing", "loop")
    ELSE IF state = "audio_testing"
    THEN SetDeviceState(EnableAudioTesting(a, FALSE), "wifi_configuring", "loop")
    ELSE IF NoProtocol(a) THEN a
    ELSE IF state = "idle" THEN OpenThenListen(a, ModeForAec(a), "loop", ok, err)
    ELSE IF state = "speaking" THEN AbortSpeaking(a, "loop")
    ELSE IF state = "listening"
    THEN SetDeviceState(CloseAudioChannel(a, "loop"), "idle", "loop")
    ELSE a

\* Application::HandleToggleChatEvent.
HandleToggleChatEvent(a, ok, err) ==
    LET state == a.device_state IN
    IF state = "activating" THEN SetDeviceState(a, "idle", "loop")
    ELSE IF state = "wifi_configuring"
    THEN SetDeviceState(EnableAudioTesting(a, TRUE), "audio_testing", "loop")
    ELSE IF state = "audio_testing"
    THEN SetDeviceState(EnableAudioTesting(a, FALSE), "wifi_configuring", "loop")
    ELSE IF NoProtocol(a) THEN a
    ELSE IF state = "idle" THEN OpenThenListen(a, ModeForAec(a), "loop", ok, err)
    ELSE IF state = "speaking" THEN AbortSpeaking(a, "loop")
    ELSE IF state = "listening" THEN CloseAudioChannel(a, "loop")
    ELSE a

\* Application::HandleStartListeningEvent.
HandleStartListeningEvent(a, ok, err) ==
    LET state == a.device_state IN
    IF state = "activating" THEN SetDeviceState(a, "idle", "loop")
    ELSE IF state = "wifi_configuring"
    THEN SetDeviceState(EnableAudioTesting(a, TRUE), "audio_testing", "loop")
    ELSE IF NoProtocol(a) THEN a
    ELSE IF state = "idle" THEN OpenThenListen(a, "manual_stop", "loop", ok, err)
    ELSE IF state = "speaking"
    THEN SetListeningMode(AbortSpeaking(a, "loop"), "manual_stop", "loop")
    ELSE a

\* Application::HandleStopListeningEvent.
HandleStopListeningEvent(a) ==
    LET state == a.device_state IN
    IF state = "audio_testing"
    THEN SetDeviceState(EnableAudioTesting(a, FALSE), "wifi_configuring", "loop")
    ELSE IF state = "listening"
    THEN SetDeviceState(
             IF NoProtocol(a) THEN a ELSE SessionCall(a, "loop", "SendStopListening"),
             "idle", "loop")
    ELSE a

\* Run, MAIN_EVENT_SEND_AUDIO: pop packets until the queue is empty or a
\* SendAudio fails; fail_at is the packet whose SendAudio fails (0: none).
HandleSendAudio(a, fail_at) ==
    IF a.send_queue = 0 THEN a
    ELSE IF NoProtocol(a) THEN [a EXCEPT !.send_queue = 0]
    ELSE IF fail_at \in 1..a.send_queue
    THEN [Call(a, "loop", "SendAudio") EXCEPT !.send_queue = a.send_queue - fail_at]
    ELSE [Call(a, "loop", "SendAudio") EXCEPT !.send_queue = 0]

\* The body shared by HandleWakeWordDetectedEvent and WakeWordInvoke in Idle;
\* send_data is the build option that sends the wake word to the server.
WakeWordInIdle(a, c, ok, err, send_data) ==
    LET q == SessionCall(a, c, "IsAudioChannelOpened")
        b == IF ~IsAudioChannelOpened(q)
             THEN OpenAudioChannel(SetDeviceState(q, "connecting", c), c, ok, err)
             ELSE q
    IN
    IF ~IsAudioChannelOpened(q) /\ ~ok THEN EnableWakeWordDetection(b, TRUE)
    ELSE IF send_data
    THEN SetListeningMode(SessionCall(b, c, "SendWakeWordDetected"), ModeForAec(b), c)
    ELSE SetListeningMode([b EXCEPT !.play_popup_on_listening = TRUE], ModeForAec(b), c)

\* Application::HandleWakeWordDetectedEvent.
HandleWakeWordDetectedEvent(a, ok, err) ==
    LET state == a.device_state IN
    IF NoProtocol(a) THEN a
    ELSE IF state = "idle" THEN WakeWordInIdle(a, "loop", ok, err, a.send_wake_word_data)
    ELSE IF state = "speaking" THEN AbortSpeaking(a, "loop")
    ELSE IF state = "activating" THEN SetDeviceState(a, "idle", "loop")
    ELSE a

\* Run, MAIN_EVENT_VAD_CHANGE: the led only.
HandleVadChange(a) == a

\* Run, MAIN_EVENT_CLOCK_TICK; only clock_ticks_ % 10 is ever read.
HandleClockTick(a) == [a EXCEPT !.clock_ticks = (@ + 1) % 10]

\* The handler Run calls for flag f (every flag but SCHEDULE).
Handle(f, a, ok, err, fail_at) ==
    CASE f = "ERROR" -> HandleErrorEvent(a)
      [] f = "NETWORK_CONNECTED" -> HandleNetworkConnectedEvent(a)
      [] f = "NETWORK_DISCONNECTED" -> HandleNetworkDisconnectedEvent(a)
      [] f = "ACTIVATION_DONE" -> HandleActivationDoneEvent(a)
      [] f = "STATE_CHANGED" -> HandleStateChangedEvent(a)
      [] f = "TOGGLE_CHAT" -> HandleToggleChatEvent(a, ok, err)
      [] f = "START_LISTENING" -> HandleStartListeningEvent(a, ok, err)
      [] f = "STOP_LISTENING" -> HandleStopListeningEvent(a)
      [] f = "SEND_AUDIO" -> HandleSendAudio(a, fail_at)
      [] f = "WAKE_WORD_DETECTED" -> HandleWakeWordDetectedEvent(a, ok, err)
      [] f = "VAD_CHANGE" -> HandleVadChange(a)
      [] f = "CLOCK_TICK" -> HandleClockTick(a)

\* ------------------------------------------------------------ scheduled callables
\* A callable handed to Schedule: what it does (kind) and, as ghosts, a number
\* for the callables the record of the run follows (id; 0 for the others)
\* and where the loop was when it was pushed (at): "cycle" between taking a
\* snapshot and moving the queue, "drain" from the move to the end of that
\* wake-up's handlers, "old" before the current snapshot and for id 0.
Callable(kind, id, at) == [kind |-> kind, id |-> id, at |-> IF id = 0 THEN "old" ELSE at]

\* Where the loop is, for a callable pushed now.
PushedAt(l) ==
    IF l.pc = "wait" THEN "old"
    ELSE IF l.pc = "run" /\ "SCHEDULE" \in l.bits THEN "cycle"
    ELSE "drain"

\* A new snapshot: what is queued was pushed before it.
Aged(q) == [i \in 1..Len(q) |-> [q[i] EXCEPT !.at = "old"]]

\* Application::Schedule, the critical section: push_back under the mutex.
PushBack(a, t) == [a EXCEPT !.main_tasks = Append(@, t)]

\* A Schedule that pushes and returns without setting the flag.
FlagAtReturn_Missing(a) == a

\* Schedule, xEventGroupSetBits(event_group_, MAIN_EVENT_SCHEDULE).
FlagAtReturn(a) == SetBits(a, "SCHEDULE")

\* Application::Reboot: closes and destroys the session, stops the audio
\* service and restarts the chip; nothing runs after it.
Reboot(a, c) ==
    LET q == IF NoProtocol(a) THEN a ELSE SessionCall(a, c, "IsAudioChannelOpened")
        b == IF ~NoProtocol(q) /\ IsAudioChannelOpened(q) THEN CloseAudioChannel(q, c) ELSE q
    IN [ProtocolReset(b, c) EXCEPT !.audio_running = FALSE, !.halted = TRUE]

\* A ResetProtocol callable that closes the channel and keeps the session.
ResetProtocolTask_CloseOnly(a) ==
    IF ~NoProtocol(a) /\ IsAudioChannelOpened(a) THEN CloseAudioChannel(a, "loop") ELSE a

\* The callable ResetProtocol schedules.
ResetProtocolTask(a) ==
    LET q == IF NoProtocol(a) THEN a ELSE SessionCall(a, "loop", "IsAudioChannelOpened")
        b == IF ~NoProtocol(q) /\ IsAudioChannelOpened(q)
             THEN CloseAudioChannel(q, "loop") ELSE q
    IN ProtocolReset(b, "loop")

\* A SetAecMode callable that only switches the device AEC.
SetAecModeTask_NoClose(a) == a

\* The callable SetAecMode schedules.
SetAecModeTask(a) ==
    LET q == IF NoProtocol(a) THEN a ELSE SessionCall(a, "loop", "IsAudioChannelOpened") IN
    IF ~NoProtocol(q) /\ IsAudioChannelOpened(q) THEN CloseAudioChannel(q, "loop") ELSE q

\* A callable that sends without testing protocol_.
SendMcpMessageTask_NoCheck(a) == SessionCall(a, "loop", "SendMcpMessage")

\* The callable SendMcpMessage schedules.
SendMcpMessageTask(a) ==
    IF NoProtocol(a) THEN a ELSE SessionCall(a, "loop", "SendMcpMessage")

\* The callable OnAudioChannelClosed schedules.
ChannelClosedTask(a) == SetDeviceState(a, "idle", "loop")

\* A tts start callable that leaves the abort flag as it is.
TtsStartTask_KeepAbort(a) == SetDeviceState(a, "speaking", "loop")

\* The callable an incoming tts start schedules.
TtsStartTask(a) == SetDeviceState([a EXCEPT !.aborted = FALSE], "speaking", "loop")

\* A tts stop callable that goes back to Listening in every mode.
TtsStopTask_Listening(a) ==
    IF a.device_state = "speaking" THEN SetDeviceState(a, "listening", "loop") ELSE a

\* The callable an incoming tts stop schedules.
TtsStopTask(a) ==
    IF a.device_state = "speaking"
    THEN IF a.listening_mode = "manual_stop"
         THEN SetDeviceState(a, "idle", "loop")
         ELSE SetDeviceState(a, "listening", "loop")
    ELSE a

\* The callables WakeWordInvoke schedules in Speaking and in Listening.
InvokeAbortTask(a) == AbortSpeaking(a, "loop")

InvokeCloseTask(a) == IF NoProtocol(a) THEN a ELSE CloseAudioChannel(a, "loop")

\* task() in Run's drain: the effect of one callable on the application.
\* "display" stands for the callables that only write to the display,
\* "nop" and "resched" for callables of other modules.
RunTask(t, a) ==
    CASE t.kind = "channel_closed" -> ChannelClosedTask(a)
      [] t.kind = "tts_start" -> TtsStartTask(a)
      [] t.kind = "tts_stop" -> TtsStopTask(a)
      [] t.kind = "reboot" -> Reboot(a, "loop")
      [] t.kind = "invoke_abort" -> InvokeAbortTask(a)
      [] t.kind = "invoke_close" -> InvokeCloseTask(a)
      [] t.kind = "mcp" -> SendMcpMessageTask(a)
      [] t.kind = "aec" -> SetAecModeTask(a)
      [] t.kind = "reset_protocol" -> ResetProtocolTask(a)
      [] OTHER -> a

\* ------------------------------------------------------------ ghost record
\* The callable with number id was pushed (Pushed), has started (Started);
\* a drain has moved the queue q (Drained). batches holds, for every drain
\* that moved callables, how many of its callables have started.
Pushed(h, id) == IF id = 0 THEN h ELSE [h EXCEPT !.scheduled = Append(@, id)]

Started(h, id) ==
    IF id = 0 THEN h
    ELSE [h EXCEPT !.executed = Append(@, id), !.batches[Len(h.batches)] = @ + 1]

Drained(h, q) ==
    IF h.track /\ q # <<>> THEN [h EXCEPT !.batches = Append(@, 0)] ELSE h

\* ------------------------------------------------------------ the control loop
\* A step of any context starts with an empty record of calls and no fault;
\* a step that dereferenced a null pointer ends the program when the outcome
\* is a trap, and goes on when the read happens to succeed.
Begin == [app EXCEPT !.calls = {}, !.fault = FALSE]

Outcomes(a) == IF a.fault THEN UbOutcomes ELSE {"continue"}

Settle(a, ub) == IF a.fault /\ ub = "crash" THEN [a EXCEPT !.halted = TRUE] ELSE a

Running == ~app.halted

\* The first flag of the snapshot in the order of Run's if-chain.
FirstIn(order, bits) ==
    order[CHOOSE i \in 1..Len(order) :
              order[i] \in bits /\ \A j \in 1..(i - 1) : order[j] \notin bits]

\* An if-chain that tests the toggle-chat flag before the state-changed flag.
NextFlag_ToggleFirst(bits) ==
    IF "TOGGLE_CHAT" \in bits THEN "TOGGLE_CHAT" ELSE FirstIn(RunOrder, bits)

NextFlag(bits) == FirstIn(RunOrder, bits)

\* An if-chain with else branches: one handler for each wake-up.
Advance_ElseIf(l, f) ==
    [l EXCEPT !.bits = {}, !.tasks = <<>>, !.handled = <<>>, !.latest = "", !.pc = "wait"]

\* A drain that starts over while the queue is not empty.
Advance_DrainAgain(l, f) ==
    IF f = "SCHEDULE" /\ app.main_tasks # <<>>
    THEN [l EXCEPT !.tasks = <<>>, !.pc = "run"]
    ELSE [l EXCEPT !.bits = l.bits \ {f}, !.tasks = <<>>,
                   !.handled = IF l.bits \ {f} = {} THEN <<>> ELSE Append(@, f),
                   !.latest = IF l.bits \ {f} = {} THEN "" ELSE @,
                   !.pc = IF l.bits \ {f} = {} THEN "wait" ELSE "run"]

\* The handler of flag f has returned: on to the next flag of the snapshot,
\* or back to xEventGroupWaitBits.
Advance(l, f) ==
    LET rest == l.bits \ {f} IN
    [l EXCEPT !.bits = rest, !.tasks = <<>>,
              !.handled = IF rest = {} THEN <<>> ELSE Append(@, f),
              !.latest = IF rest = {} THEN "" ELSE @,
              !.pc = IF rest = {} THEN "wait" ELSE "run"]

\* xEventGroupWaitBits with xClearOnExit = pdTRUE: the bits waited for are
\* cleared when the call returns.
ClearOnExit(a) == [a EXCEPT !.event_bits = @ \ ALL_EVENTS]

\* xEventGroupWaitBits(event_group_, ALL_EVENTS, pdTRUE, pdFALSE, portMAX_DELAY):
\* returns when a bit is set, with the bits set, and clears them.
Wait ==
    /\ Running
    /\ loop.pc = "wait"
    /\ app.event_bits \cap ALL_EVENTS # {}
    /\ loop' = [loop EXCEPT !.pc = "run", !.bits = app.event_bits \cap ALL_EVENTS,
                            !.handled = <<>>, !.latest = app.latest]
    /\ app' = [ClearOnExit(Begin) EXCEPT !.latest = "", !.main_tasks = Aged(@)]
    /\ UNCHANGED <<ctx, worker, budget, hist>>

\* The activation task HandleNetworkConnectedEvent creates.
WorkerCreated == [pc |-> "start", retry_count |-> 0, retry_delay |-> 10, i |-> 0]

\* One if-block of Run other than the drain: the handler of the first flag
\* left in the snapshot.
Dispatch ==
    /\ Running
    /\ loop.pc = "run"
    /\ NextFlag(loop.bits) # "SCHEDULE"
    /\ \E ok \in BOOLEAN, err \in BOOLEAN, fail_at \in 0..MaxPackets :
          LET f == NextFlag(loop.bits)
              r == Handle(f, Call([Begin EXCEPT !.owed = @ \ {f}], "loop", f), ok, err, fail_at)
          IN /\ ok => ~err
             /\ f # "SEND_AUDIO" => fail_at = 0
             /\ \E ub \in Outcomes(r) : app' = Settle(r, ub)
             /\ loop' = Advance(loop, f)
             /\ worker' = IF r.activation_task /\ ~app.activation_task
                          THEN WorkerCreated ELSE worker
    /\ UNCHANGED <<ctx, budget, hist>>

\* A drain that runs the queue back to front.
TakeTasks_Reversed(a) ==
    [i \in 1..Len(a.main_tasks) |-> a.main_tasks[Len(a.main_tasks) + 1 - i]]

\* A drain that takes only the callables queued before the snapshot.
TakeTasks_OldOnly(a) == SelectSeq(a.main_tasks, LAMBDA t : t.at = "old")

\* Run's drain, std::move(main_tasks_): what tasks receives.
TakeTasks(a) == a.main_tasks

\* Run's drain, std::move(main_tasks_): what main_tasks_ is left with.
LeftAfterMove(a) == <<>>

\* A drain that moves the queue without taking the mutex.
DrainMayLock_NoLock == TRUE

\* Run's drain, std::unique_lock lock(mutex_): blocks while a Schedule call
\* holds the mutex.
DrainMayLock == app.mutex = "free"

\* Run's drain, first half: lock mutex_ and move main_tasks_ into tasks.
DrainLock ==
    /\ Running
    /\ loop.pc = "run"
    /\ NextFlag(loop.bits) = "SCHEDULE"
    /\ DrainMayLock
    /\ loop' = [loop EXCEPT !.pc = "locked", !.tasks = TakeTasks(app)]
    /\ app' = [Begin EXCEPT !.main_tasks = LeftAfterMove(app),
                            !.owed = @ \ {"SCHEDULE"},
                            !.mutex = IF app.mutex = "free" THEN "loop" ELSE @]
    /\ hist' = Drained(hist, TakeTasks(app))
    /\ UNCHANGED <<ctx, worker, budget>>

\* Run's drain, lock.unlock(): on to the for loop over tasks.
DrainUnlock ==
    /\ Running
    /\ loop.pc = "locked"
    /\ app' = [Begin EXCEPT !.mutex = IF @ = "loop" THEN "free" ELSE @]
    /\ loop' = IF loop.tasks = <<>> THEN Advance(loop, "SCHEDULE")
               ELSE [loop EXCEPT !.pc = "exec"]
    /\ UNCHANGED <<ctx, worker, budget, hist>>

\* Run's drain, one task() of the for loop. A callable of kind "resched"
\* calls Schedule itself, on the loop thread.
ExecTask ==
    /\ Running
    /\ loop.pc = "exec"
    /\ LET t == Head(loop.tasks)
           resched == t.kind = "resched" /\ hist.next_id <= MaxTasks
       IN /\ resched => app.mutex = "free"
          /\ LET r == RunTask(t, Call(Begin, "loop", t.kind))
                 n == Callable("nop", hist.next_id, PushedAt(loop))
             IN \E ub \in Outcomes(r) :
                   app' = Settle(IF resched THEN FlagAtReturn(PushBack(r, n)) ELSE r, ub)
          /\ hist' = IF resched
                     THEN [Pushed(Started(hist, t.id), hist.next_id) EXCEPT !.next_id = @ + 1]
                     ELSE Started(hist, t.id)
          /\ loop' = IF Len(loop.tasks) = 1 THEN Advance(loop, "SCHEDULE")
                     ELSE [loop EXCEPT !.tasks = Tail(@)]
    /\ UNCHANGED <<ctx, worker, budget>>

\* ------------------------------------------------------------ Schedule, from another context
ctxIdle == [pc |-> "idle", task |-> Callable("nop", 0, "old")]

\* Context c enters Schedule(t): lock_guard and push_back.
EnterSchedule(c, t) == [ctx EXCEPT ![c] = [pc |-> "locked", task |-> t]]

MayEnterSchedule(c) == ctx[c].pc = "idle" /\ app.mutex = "free"

\* Schedule, the end of the lock_guard block.
ScheduleUnlock(c) ==
    /\ Running
    /\ ctx[c].pc = "locked"
    /\ ctx' = [ctx EXCEPT ![c].pc = "unlocked"]
    /\ app' = [Begin EXCEPT !.mutex = IF @ = c THEN "free" ELSE @]
    /\ UNCHANGED <<loop, worker, budget, hist>>

\* Schedule, the flag is set and the call returns.
ScheduleSetBits(c) ==
    /\ Running
    /\ ctx[c].pc = "unlocked"
    /\ ctx' = [ctx EXCEPT ![c] = ctxIdle]
    /\ app' = FlagAtReturn(Begin)
    /\ UNCHANGED <<loop, worker, budget, hist>>

\* A direct call Schedule(f) by context c with a callable of another module.
ScheduleCall(c, kind) ==
    /\ Running
    /\ hist.next_id <= MaxTasks
    /\ MayEnterSchedule(c)
    /\ LET t == Callable(kind, hist.next_id, PushedAt(loop)) IN
       /\ ctx' = EnterSchedule(c, t)
       /\ app' = [PushBack(Begin, t) EXCEPT !.mutex = c]
       /\ hist' = [Pushed(hist, t.id) EXCEPT !.next_id = @ + 1]
    /\ UNCHANGED <<loop, worker, budget>>

\* The clock timer's callback.
ClockTick ==
    /\ Running
    /\ budget > 0
    /\ budget' = budget - 1
    /\ app' = SetBits(Begin, "CLOCK_TICK")
    /\ UNCHANGED <<loop, ctx, worker, hist>>

\* ------------------------------------------------------------ the other contexts
\* An external event: one more of the budget is used.
Spend == budget > 0 /\ budget' = budget - 1

\* Context c calls Schedule with a callable of kind k that is not numbered:
\* the push under the mutex (ScheduleUnlock and ScheduleSetBits follow).
Schedule(a, c, k) == [PushBack(a, Callable(k, 0, PushedAt(loop))) EXCEPT !.mutex = c]

\* Application::ToggleChatState, StartListening, StopListening.
ToggleChatState(a) == SetBits(a, "TOGGLE_CHAT")

StartListening(a) == SetBits(a, "START_LISTENING")

StopListening(a) == SetBits(a, "STOP_LISTENING")

\* boot_button_.OnClick, in a state other than Starting.
BootButtonClick ==
    /\ Running /\ Spend
    /\ app.device_state # "starting"
    /\ app' = ToggleChatState(Begin)
    /\ UNCHANGED <<loop, ctx, worker, hist>>

\* touch_button_.OnPressDown and OnPressUp.
TouchButtonDown ==
    /\ Running /\ Spend
    /\ app' = StartListening(Begin)
    /\ UNCHANGED <<loop, ctx, worker, hist>>

TouchButtonUp ==
    /\ Running /\ Spend
    /\ app' = StopListening(Begin)
    /\ UNCHANGED <<loop, ctx, worker, hist>>

\* Application::WakeWordInvoke run by context c up to its return or, in
\* Speaking and Listening, up to the push of its Schedule call; afe is the
\* build option CONFIG_USE_AFE_WAKE_WORD || CONFIG_USE_CUSTOM_WAKE_WORD.
WakeWordInvoke(a, c, ok, err, afe) ==
    IF NoProtocol(a) THEN a
    ELSE IF a.device_state = "idle" THEN WakeWordInIdle(a, c, ok, err, afe)
    ELSE IF a.device_state = "speaking" THEN Schedule(a, c, "invoke_abort")
    ELSE IF a.device_state = "listening" THEN Schedule(a, c, "invoke_close")
    ELSE a

\* asr_button_.OnClick: WakeWordInvoke on the button's thread.
AsrButtonClick ==
    /\ Running /\ Spend
    /\ MayEnterSchedule("button")
    /\ \E ok \in BOOLEAN, err \in BOOLEAN :
          LET r == WakeWordInvoke(Begin, "button", ok, err, app.afe_wake_word) IN
          /\ ok => ~err
          /\ \E ub \in Outcomes(r) : app' = Settle(r, ub)
          /\ ctx' = IF r.mutex = "button"
                    THEN EnterSchedule("button", r.main_tasks[Len(r.main_tasks)])
                    ELSE ctx
    /\ UNCHANGED <<loop, worker, hist>>

\* The audio service's callbacks; a packet ready to send comes with
\* on_send_queue_available.
OnSendQueueAvailable ==
    /\ Running /\ Spend
    /\ app.send_queue < MaxPackets
    /\ app' = SetBits([Begin EXCEPT !.send_queue = @ + 1], "SEND_AUDIO")
    /\ UNCHANGED <<loop, ctx, worker, hist>>

OnWakeWordDetected ==
    /\ Running /\ Spend
    /\ app' = SetBits(Begin, "WAKE_WORD_DETECTED")
    /\ UNCHANGED <<loop, ctx, worker, hist>>

OnVadChange ==
    /\ Running /\ Spend
    /\ app' = SetBits(Begin, "VAD_CHANGE")
    /\ UNCHANGED <<loop, ctx, worker, hist>>

\* The network event callback Initialize registers with the board.
NetworkEvent(connected) ==
    /\ Running /\ Spend
    /\ app' = SetBits(Begin, IF connected THEN "NETWORK_CONNECTED"
                             ELSE "NETWORK_DISCONNECTED")
    /\ UNCHANGED <<loop, ctx, worker, hist>>

\* protocol_->OnNetworkError, on the session's I/O context.
OnNetworkError ==
    /\ Running /\ Spend
    /\ ~NoProtocol(app)
    /\ app' = SetBits([Call(Begin, "io", "OnNetworkError") EXCEPT
                            !.last_error = "network_error"], "ERROR")
    /\ UNCHANGED <<loop, ctx, worker, hist>>

\* protocol_->OnAudioChannelClosed, on the session's I/O context: after a
\* CloseAudioChannel, or when the server or the network ends an open channel.
OnAudioChannelClosed ==
    /\ Running
    /\ ~NoProtocol(app)
    /\ MayEnterSchedule("io")
    /\ \/ app.close_pending /\ UNCHANGED budget
       \/ ~app.close_pending /\ app.channel_opened /\ Spend
    /\ LET r == Schedule([Begin EXCEPT !.channel_opened = FALSE, !.close_pending = FALSE],
                         "io", "channel_closed")
       IN /\ app' = r
          /\ ctx' = EnterSchedule("io", r.main_tasks[Len(r.main_tasks)])
    /\ UNCHANGED <<loop, worker, hist>>

\* The messages of the server, by what OnIncomingJson does with them:
\* "display" is a sentence_start, stt or llm message with its field, "other"
\* an alert or mcp message or an unknown system command; the unexpected
\* ones are a type no branch knows, a known type whose text, emotion,
\* payload or command field is missing, a message without type (or whose
\* type is not a string), and a tts message without state.
Unexpected == {"unknown_type", "missing_field", "missing_type", "tts_no_state"}

JsonKinds == {"tts_start", "tts_stop", "display", "reboot", "other"} \cup Unexpected

\* An OnIncomingJson whose tts start sets Speaking in the callback itself.
OnIncomingJson_Direct(a, kind) ==
    IF kind = "tts_start"
    THEN SetDeviceState([a EXCEPT !.aborted = FALSE], "speaking", "io")
    ELSE a

\* protocol_->OnIncomingJson up to its return or to the push of its Schedule
\* call; type->valuestring and state->valuestring are read unchecked.
OnIncomingJson(a, kind) ==
    CASE kind = "tts_start" -> Schedule(a, "io", "tts_start")
      [] kind = "tts_stop" -> Schedule(a, "io", "tts_stop")
      [] kind = "display" -> Schedule(a, "io", "display")
      [] kind = "reboot" -> Schedule(a, "io", "reboot")
      [] kind \in {"missing_type", "tts_no_state"} ->
            [Call(Call(a, "io", kind), "io", "null_json_item") EXCEPT !.fault = TRUE]
      [] kind \in {"unknown_type", "missing_field"} -> Call(a, "io", kind)
      [] OTHER -> a

IncomingJson(kind) ==
    /\ Running /\ Spend
    /\ ~NoProtocol(app)
    /\ MayEnterSchedule("io")
    /\ LET r == OnIncomingJson(Begin, kind) IN
          /\ \E ub \in Outcomes(r) : app' = Settle(r, ub)
          /\ ctx' = IF r.mutex = "io"
                    THEN EnterSchedule("io", r.main_tasks[Len(r.main_tasks)])
                    ELSE ctx
    /\ UNCHANGED <<loop, worker, hist>>

\* Application::SetAecMode, SendMcpMessage, ResetProtocol, called by a
\* context other than the loop, up to the push of their Schedule call.
SetAecMode(a, c, mode) == Schedule([a EXCEPT !.aec_mode = mode], c, "aec")

SendMcpMessage(a, c) == Schedule(a, c, "mcp")

ResetProtocol(a, c) == Schedule(a, c, "reset_protocol")

ApiCall(r) ==
    /\ Running /\ Spend
    /\ MayEnterSchedule("api")
    /\ app' = r
    /\ ctx' = EnterSchedule("api", r.main_tasks[Len(r.main_tasks)])
    /\ UNCHANGED <<loop, worker, hist>>

CallSetAecMode(mode) == ApiCall(SetAecMode(Begin, "api", mode))

CallSendMcpMessage == ApiCall(SendMcpMessage(Begin, "api"))

CallResetProtocol == ApiCall(ResetProtocol(Begin, "api"))

\* ------------------------------------------------------------ the activation worker
\* CheckNewVersion, MAX_RETRY.
MAX_RETRY == 10

\* CheckNewVersion, the bound of the for loop around ota_->Activate().
ActivateTries == 10

\* The results of ota_->Activate(): ESP_OK, ESP_ERR_TIMEOUT, another error.
ActivateResults == {"ok", "timeout", "error"}

\* The worker moves to position pc.
Goto(pc) == [worker EXCEPT !.pc = pc]

\* CheckAssetsVersion, settings.EraseKey("download_url").
EraseKey(a) == [Call(a, "worker", "EraseKey(download_url)") EXCEPT !.download_url = FALSE]

\* ActivationTask up to the first delay of CheckAssetsVersion: ota_ is
\* created; valid is assets.partition_valid(); the stored download_url is
\* read and, when there is one, erased before the download starts.
ActivationTask(valid) ==
    /\ Running
    /\ worker.pc = "start"
    /\ LET a == [Begin EXCEPT !.ota = TRUE] IN
       IF a.assets_version_checked
       THEN app' = a /\ worker' = Goto("check_version")
       ELSE LET b == [a EXCEPT !.assets_version_checked = TRUE] IN
            IF valid /\ b.download_url
            THEN app' = Alert(EraseKey(b), "worker") /\ worker' = Goto("assets_delay")
            ELSE app' = b /\ worker' = Goto("check_version")
    /\ UNCHANGED <<loop, ctx, budget, hist>>

\* CheckAssetsVersion after the 3 s delay: SetDeviceState(kDeviceStateUpgrading).
AssetsUpgrading ==
    /\ Running
    /\ worker.pc = "assets_delay"
    /\ app' = SetDeviceState(Begin, "upgrading", "worker")
    /\ worker' = Goto("assets_download")
    /\ UNCHANGED <<loop, ctx, budget, hist>>

\* CheckAssetsVersion, assets.Download returns.
AssetsDownloaded(success) ==
    /\ Running
    /\ worker.pc = "assets_download"
    /\ app' = IF success THEN Begin ELSE Alert(Begin, "worker")
    /\ worker' = Goto(IF success THEN "check_version" ELSE "assets_failed")
    /\ UNCHANGED <<loop, ctx, budget, hist>>

\* CheckAssetsVersion, the download failed: SetDeviceState(kDeviceStateActivating).
AssetsFailed ==
    /\ Running
    /\ worker.pc = "assets_failed"
    /\ app' = SetDeviceState(Begin, "activating", "worker")
    /\ worker' = Goto("check_version")
    /\ UNCHANGED <<loop, ctx, budget, hist>>

\* CheckNewVersion after the version is known not to need an upgrade (or the
\* upgrade failed): leave the loop, or go on to the activation attempts.
AfterVersion(w, code) ==
    IF code THEN [w EXCEPT !.pc = "activate", !.i = 0] ELSE [w EXCEPT !.pc = "init_protocol"]

\* A version check that retries without limit.
GivesUp_Never(n) == FALSE

\* CheckNewVersion, retry_count >= MAX_RETRY after retry_count++.
GivesUp(n) == n >= MAX_RETRY

\* CheckNewVersion, one ota_->CheckVersion(): err is its failure,
\* new_version and code what the server's answer holds (a new firmware
\* version; an activation code or challenge).
CheckVersion(err, new_version, code) ==
    /\ Running
    /\ worker.pc = "check_version"
    /\ err => ~new_version /\ ~code
    /\ IF err
       THEN IF GivesUp(worker.retry_count + 1)
            THEN /\ app' = Begin
                 /\ worker' = [worker EXCEPT !.retry_count = @ + 1, !.pc = "init_protocol"]
            ELSE /\ app' = Alert(Begin, "worker")
                 /\ worker' = [worker EXCEPT !.retry_count = @ + 1, !.pc = "retry_wait"]
       ELSE /\ app' = Begin
            /\ worker' = IF new_version
                         THEN [worker EXCEPT !.retry_count = 0, !.retry_delay = 10,
                                             !.pc = "upgrade"]
                         ELSE AfterVersion([worker EXCEPT !.retry_count = 0,
                                                          !.retry_delay = 10], code)
    /\ UNCHANGED <<loop, ctx, budget, hist>>

\* A backoff that grows by the initial delay instead of doubling.
DoubleDelay_Add(d) == d + 10

\* CheckNewVersion, retry_delay *= 2.
DoubleDelay(d) == d * 2

\* CheckNewVersion, the wait before a retry: it ends after retry_delay
\* seconds, or earlier when the device is seen Idle; the delay doubles.
RetryWait ==
    /\ Running
    /\ worker.pc = "retry_wait"
    /\ app' = IF app.device_state = "idle" THEN Call(Begin, "worker", "break(idle)") ELSE Begin
    /\ worker' = [worker EXCEPT !.retry_delay = DoubleDelay(@), !.pc = "check_version"]
    /\ UNCHANGED <<loop, ctx, budget, hist>>

\* UpgradeFirmware up to its first delay.
UpgradeFirmware ==
    /\ Running
    /\ worker.pc = "upgrade"
    /\ LET q == IF NoProtocol(Begin) THEN Begin
                ELSE SessionCall(Begin, "worker", "IsAudioChannelOpened")
           b == IF ~NoProtocol(q) /\ IsAudioChannelOpened(q)
                THEN CloseAudioChannel(q, "worker") ELSE q
       IN app' = Alert(b, "worker")
    /\ worker' = Goto("upgrade_delay")
    /\ UNCHANGED <<loop, ctx, budget, hist>>

\* UpgradeFirmware after the 3 s delay: SetDeviceState(kDeviceStateUpgrading)
\* and audio_service_.Stop().
Upgrading ==
    /\ Running
    /\ worker.pc = "upgrade_delay"
    /\ app' = [SetDeviceState(Begin, "upgrading", "worker") EXCEPT !.audio_running = FALSE]
    /\ worker' = Goto("upgrade_download")
    /\ UNCHANGED <<loop, ctx, budget, hist>>

\* UpgradeFirmware, Ota::Upgrade returns: Reboot() on success, else the audio
\* service is restarted and CheckNewVersion goes on.
Upgraded(success, code) ==
    /\ Running
    /\ worker.pc = "upgrade_download"
    /\ IF success
       THEN app' = Reboot(Begin, "worker") /\ worker' = Goto("rebooted")
       ELSE /\ app' = Alert(Call([Begin EXCEPT !.audio_running = TRUE],
                                  "worker", "audio_service_.Start"), "worker")
            /\ worker' = AfterVersion(worker, code)
    /\ UNCHANGED <<loop, ctx, budget, hist>>

\* A polling loop that waits 10 s after every failure.
DelayAfter_Ten(result) == "vTaskDelay(10000)"

\* CheckNewVersion, the delay that follows a failed ota_->Activate(): 3 s
\* after ESP_ERR_TIMEOUT, 10 s after another error.
DelayAfter(result) == IF result = "timeout" THEN "vTaskDelay(3000)" ELSE "vTaskDelay(10000)"

\* Ghost: the result of the ota_->Activate() call just made.
ActivateCall(result) ==
    CASE result = "ok" -> "Activate=ok"
      [] result = "timeout" -> "Activate=timeout"
      [] OTHER -> "Activate=error"

\* CheckNewVersion, one ota_->Activate(), up to the break after ESP_OK or
\* to the delay after a failure.
Activate(result) ==
    /\ Running
    /\ worker.pc = "activate"
    /\ app' = IF result = "ok" THEN Call(Begin, "worker", ActivateCall(result))
              ELSE Call(Call(Begin, "worker", ActivateCall(result)), "worker", DelayAfter(result))
    /\ worker' = Goto(IF result = "ok" THEN "check_version" ELSE "activate_delay")
    /\ UNCHANGED <<loop, ctx, budget, hist>>

\* CheckNewVersion, after the delay that follows a failed Activate(): the
\* attempts end when the device is Idle or after the last one.
ActivateDelay ==
    /\ Running
    /\ worker.pc = "activate_delay"
    /\ app' = IF app.device_state = "idle" THEN Call(Begin, "worker", "break(idle)") ELSE Begin
    /\ worker' = IF app.device_state = "idle" \/ worker.i + 1 >= ActivateTries
                 THEN [worker EXCEPT !.pc = "check_version", !.i = 0]
                 ELSE [worker EXCEPT !.pc = "activate", !.i = @ + 1]
    /\ UNCHANGED <<loop, ctx, budget, hist>>

\* InitializeProtocol, protocol_ = std::make_unique<...>() and the
\* registration of the callbacks.
InitializeProtocol ==
    /\ Running
    /\ worker.pc = "init_protocol"
    /\ LET r == IF ~app.ota
                THEN [Call(Begin, "worker", "null_ota") EXCEPT !.fault = TRUE]
                ELSE [Call(Begin, "worker", "protocol_ = make_unique") EXCEPT
                          !.protocol = 1, !.channel_opened = FALSE, !.close_pending = FALSE]
       IN \E ub \in Outcomes(r) : app' = Settle(r, ub)
    /\ worker' = Goto("protocol_start")
    /\ UNCHANGED <<loop, ctx, budget, hist>>

\* InitializeProtocol, protocol_->Start().
ProtocolStart ==
    /\ Running
    /\ worker.pc = "protocol_start"
    /\ \E ub \in Outcomes(SessionCall(Begin, "worker", "Start")) :
          app' = Settle(SessionCall(Begin, "worker", "Start"), ub)
    /\ worker' = Goto("signal")
    /\ UNCHANGED <<loop, ctx, budget, hist>>

\* ActivationTask, xEventGroupSetBits(event_group_, MAIN_EVENT_ACTIVATION_DONE).
ActivationDone ==
    /\ Running
    /\ worker.pc = "signal"
    /\ app' = SetBits(Begin, "ACTIVATION_DONE")
    /\ worker' = Goto("exit")
    /\ UNCHANGED <<loop, ctx, budget, hist>>

\* The task's lambda after ActivationTask: activation_task_handle_ = nullptr.
ActivationExit ==
    /\ Running
    /\ worker.pc = "exit"
    /\ app' = [Begin EXCEPT !.activation_task = FALSE]
    /\ worker' = [pc |-> "none", retry_count |-> 0, retry_delay |-> 10, i |-> 0]
    /\ UNCHANGED <<loop, ctx, budget, hist>>

\* ------------------------------------------------------------ initial states
\* The application after its constructor and Initialize(), for one build
\* (aec, send_data, afe): no session, no task, no flag, state Starting.
AppInit(aec, send_data, afe) ==
    [device_state |-> "starting", listening_mode |-> "auto_stop", aec_mode |-> aec,
     aborted |-> FALSE, play_popup_on_listening |-> FALSE, clock_ticks |-> 0,
     protocol |-> 0, channel_opened |-> FALSE, close_pending |-> FALSE, ota |-> FALSE,
     assets_version_checked |-> FALSE, download_url |-> FALSE, activation_task |-> FALSE,
     last_error |-> "", voice_processing |-> FALSE, wake_word_detection |-> FALSE,
     audio_testing |-> FALSE, audio_running |-> TRUE, send_queue |-> 0,
     send_wake_word_data |-> send_data, afe_wake_word |-> afe,
     event_bits |-> {}, main_tasks |-> <<>>, mutex |-> "free",
     calls |-> {}, latest |-> "", owed |-> {}, fault |-> FALSE, halted |-> FALSE]

\* The loop before its first xEventGroupWaitBits: bits are the flags of the
\* snapshot whose if-block is still to come. Ghosts, kept during a wake-up:
\* handled are the flags whose if-block has run, in order, latest is the
\* flag of the snapshot that had been set last.
LoopInit == [pc |-> "wait", bits |-> {}, tasks |-> <<>>, handled |-> <<>>, latest |-> ""]

WorkerNone == [pc |-> "none", retry_count |-> 0, retry_delay |-> 10, i |-> 0]

\* The ghost record; track is whether the run follows numbered callables.
HistInit(track) ==
    [track |-> track, next_id |-> 1, scheduled |-> <<>>, executed |-> <<>>,
     batches |-> <<>>]

\* ------------------------------------------------------------ the scheduler alone
\* Contexts call Schedule(f) directly while the clock ticks.
SchedInit ==
    /\ app = AppInit("off", FALSE, FALSE)
    /\ loop = LoopInit
    /\ ctx = [c \in Contexts |-> ctxIdle]
    /\ worker = WorkerNone
    /\ budget = MaxTicks
    /\ hist = HistInit(TRUE)

SchedNext ==
    \/ Wait
    \/ Dispatch
    \/ DrainLock
    \/ DrainUnlock
    \/ ExecTask
    \/ \E c \in Producers : ScheduleUnlock(c)
    \/ \E c \in Producers : ScheduleSetBits(c)
    \/ \E c \in Producers, kind \in {"nop", "resched"} : ScheduleCall(c, kind)
    \/ ClockTick

SchedSpec == SchedInit /\ [][SchedNext]_vars

\* The steps of the control-loop thread.
LoopNext == Wait \/ Dispatch \/ DrainLock \/ DrainUnlock \/ ExecTask

\* FreeRTOS runs every ready task: the loop thread goes on, and a context
\* inside Schedule leaves it.
Fairness ==
    /\ WF_vars(LoopNext)
    /\ \A c \in Contexts : WF_vars(ScheduleUnlock(c)) /\ WF_vars(ScheduleSetBits(c))

FairSchedSpec == SchedSpec /\ Fairness

\* ------------------------------------------------------------ the conversation
\* The builds examined: the AEC option, CONFIG_SEND_WAKE_WORD_DATA, and
\* whether a wake word engine that encodes the wake word is built in.
Builds == {<<"off", FALSE, FALSE>>, <<"on_device_side", TRUE, TRUE>>,
           <<"on_server_side", FALSE, TRUE>>}

\* The application once activation is done and its state-changed event is
\* handled: Idle with a session, wake word detection on, nothing pending.
AppActivated(aec, send_data, afe) ==
    [AppInit(aec, send_data, afe) EXCEPT
         !.device_state = "idle", !.protocol = 1, !.assets_version_checked = TRUE,
         !.wake_word_detection = TRUE]

Init ==
    /\ \E b \in Builds : app = AppActivated(b[1], b[2], b[3])
    /\ loop = LoopInit
    /\ ctx = [c \in Contexts |-> ctxIdle]
    /\ worker = WorkerNone
    /\ budget = MaxEvents
    /\ hist = HistInit(FALSE)

Next ==
    \/ Wait
    \/ Dispatch
    \/ DrainLock
    \/ DrainUnlock
    \/ ExecTask
    \/ \E c \in Contexts : ScheduleUnlock(c)
    \/ \E c \in Contexts : ScheduleSetBits(c)
    \/ BootButtonClick
    \/ TouchButtonDown
    \/ TouchButtonUp
    \/ AsrButtonClick
    \/ OnSendQueueAvailable
    \/ OnWakeWordDetected
    \/ OnVadChange
    \/ ClockTick
    \/ \E connected \in BOOLEAN : NetworkEvent(connected)
    \/ OnNetworkError
    \/ OnAudioChannelClosed
    \/ \E kind \in JsonKinds : IncomingJson(kind)
    \/ \E mode \in AecModes : CallSetAecMode(mode)
    \/ CallSendMcpMessage
    \/ CallResetProtocol

Spec == Init /\ [][Next]_vars

FairSpec == Spec /\ Fairness

\* The closed callback of a channel whose closure was requested: the session
\* delivers it as long as it exists.
ClosedCallbackDue == app.close_pending /\ OnAudioChannelClosed

FairSessionSpec == FairSpec /\ WF_vars(ClosedCallbackDue)

\* ------------------------------------------------------------ the conversation, under way
\* The conversations examined: a build, and the listening mode the
\* conversation was started in (toggle-chat: the mode of the AEC option;
\* the touch button: ManualStop).
Talks == {<<"off", FALSE, FALSE, "auto_stop">>, <<"off", FALSE, FALSE, "manual_stop">>,
          <<"on_server_side", FALSE, TRUE, "realtime">>}

\* The application while the assistant speaks: from Idle the channel was
\* opened and Listening entered in mode, a tts start was received, and the
\* state-changed events of both transitions are handled.
AppSpeaking(aec, send_data, afe, mode) ==
    [AppActivated(aec, send_data, afe) EXCEPT
         !.device_state = "speaking", !.listening_mode = mode, !.channel_opened = TRUE,
         !.voice_processing = (mode = "realtime"),
         !.wake_word_detection = (mode # "realtime" /\ afe)]

TalkInit ==
    /\ \E t \in Talks : app = AppSpeaking(t[1], t[2], t[3], t[4])
    /\ loop = LoopInit
    /\ ctx = [c \in Contexts |-> ctxIdle]
    /\ worker = WorkerNone
    /\ budget = MaxEvents
    /\ hist = HistInit(FALSE)

TalkSpec == TalkInit /\ [][Next]_vars

\* The conversation under way, the loop and the Schedule calls going on.
FairTalkSpec == TalkSpec /\ Fairness

\* ------------------------------------------------------------ start-up and activation
\* The application when Initialize has returned: Starting, no session; the
\* build is the one without AEC and without wake word data; a download_url
\* for new assets may be stored from an earlier run.
ActInit ==
    /\ \E url \in BOOLEAN : app = [AppInit("off", FALSE, FALSE) EXCEPT !.download_url = url]
    /\ loop = LoopInit
    /\ ctx = [c \in Contexts |-> ctxIdle]
    /\ worker = WorkerNone
    /\ budget = MaxEvents
    /\ hist = HistInit(FALSE)

\* Nothing calls Schedule here, so Run's drain has nothing to do.
ActNext ==
    \/ Wait
    \/ Dispatch
    \/ \E connected \in BOOLEAN : NetworkEvent(connected)
    \/ BootButtonClick
    \/ OnWakeWordDetected
    \/ \E valid \in BOOLEAN : ActivationTask(valid)
    \/ AssetsUpgrading
    \/ \E success \in BOOLEAN : AssetsDownloaded(success)
    \/ AssetsFailed
    \/ \E err \in BOOLEAN, new_version \in BOOLEAN, code \in BOOLEAN :
          CheckVersion(err, new_version, code)
    \/ RetryWait
    \/ UpgradeFirmware
    \/ Upgrading
    \/ \E success \in BOOLEAN, code \in BOOLEAN : Upgraded(success, code)
    \/ \E result \in ActivateResults : Activate(result)
    \/ ActivateDelay
    \/ InitializeProtocol
    \/ ProtocolStart
    \/ ActivationDone
    \/ ActivationExit

ActSpec == ActInit /\ [][ActNext]_vars

\* The steps of the activation task.
WorkerNext ==
    \/ \E valid \in BOOLEAN : ActivationTask(valid)
    \/ AssetsUpgrading
    \/ \E success \in BOOLEAN : AssetsDownloaded(success)
    \/ AssetsFailed
    \/ \E err \in BOOLEAN, new_version \in BOOLEAN, code \in BOOLEAN :
          CheckVersion(err, new_version, code)
    \/ RetryWait
    \/ UpgradeFirmware
    \/ Upgrading
    \/ \E success \in BOOLEAN, code \in BOOLEAN : Upgraded(success, code)
    \/ \E result \in ActivateResults : Activate(result)
    \/ ActivateDelay
    \/ InitializeProtocol
    \/ ProtocolStart
    \/ ActivationDone
    \/ ActivationExit

\* FreeRTOS runs every ready task: the loop thread and the activation task
\* go on; every delay and every call of the task returns.
FairActSpec == ActSpec /\ WF_vars(LoopNext) /\ WF_vars(WorkerNext)

\* ------------------------------------------------------------ start-up, from either state
\* The application before the network is up: Starting, or WifiConfiguring
\* when the board has entered its configuration mode from Starting.
StartInit ==
    /\ \E s \in {"starting", "wifi_configuring"}, url \in BOOLEAN :
          app = [AppInit("off", FALSE, FALSE) EXCEPT !.device_state = s, !.download_url = url]
    /\ loop = LoopInit
    /\ ctx = [c \in Contexts |-> ctxIdle]
    /\ worker = WorkerNone
    /\ budget = MaxEvents
    /\ hist = HistInit(FALSE)

StartNext == ActNext \/ TouchButtonDown \/ TouchButtonUp

StartSpec == StartInit /\ [][StartNext]_vars

\* ------------------------------------------------------------ the life of the session
\* The application when CheckNewVersion has returned and InitializeProtocol
\* is about to run: Activating, ota_ created, no session yet.
AppBeforeProtocol ==
    [AppInit("off", FALSE, FALSE) EXCEPT
         !.device_state = "activating", !.ota = TRUE, !.assets_version_checked = TRUE,
         !.activation_task = TRUE]

LifeInit ==
    /\ app = AppBeforeProtocol
    /\ loop = LoopInit
    /\ ctx = [c \in Contexts |-> ctxIdle]
    /\ worker = [WorkerCreated EXCEPT !.pc = "init_protocol"]
    /\ budget = MaxEvents
    /\ hist = HistInit(FALSE)

\* The end of the activation task, then the conversation.
LifeNext ==
    \/ InitializeProtocol
    \/ ProtocolStart
    \/ ActivationDone
    \/ ActivationExit
    \/ Next

LifeSpec == LifeInit /\ [][LifeNext]_vars

\* ------------------------------------------------------------ properties
Range(s) == {s[i] : i \in 1..Len(s)}

NoDuplicates(s) == \A i, j \in 1..Len(s) : i # j => s[i] # s[j]

\* Context c is inside Schedule: it has pushed and not yet set the flag.
InSchedule(c) == ctx[c].pc \in {"locked", "unlocked"}

\* The loop is blocked in xEventGroupWaitBits.
LoopBlocked == loop.pc = "wait" /\ app.event_bits \cap ALL_EVENTS = {}

ExactlyOnceSafe ==
    /\ NoDuplicates(hist.executed)
    /\ Range(hist.executed) \subseteq Range(hist.scheduled)
    /\ (app.main_tasks # <<>> /\ loop.pc = "wait" /\ "SCHEDULE" \notin app.event_bits)
           => \E c \in Contexts : InSchedule(c)
    /\ (LoopBlocked /\ \A c \in Contexts : ~InSchedule(c))
           => Range(hist.executed) = Range(hist.scheduled)

\* C1: every callable handed to Schedule is executed exactly once, by the
\* drain of the control loop: never twice, and never zero times (again and
\* again every callable pushed so far has been executed); no callable stays
\* in the queue with the schedule flag clear and the loop blocked in wait,
\* unless its producer is still inside Schedule, about to set the flag.
C1_ExactlyOnce ==
    /\ []ExactlyOnceSafe
    /\ []<>(Range(hist.executed) = Range(hist.scheduled))

\* The numbered callables whose Schedule call has returned.
ReturnedIds == Range(hist.scheduled) \ {ctx[c].task.id : c \in {d \in Contexts : InSchedule(d)}}

\* C1 witness: two callables of two Schedule calls that have both returned
\* are drained by one wake-up.
C1_Witness ==
    /\ loop.pc = "exec"
    /\ Len(loop.tasks) >= 2
    /\ \A i \in 1..Len(loop.tasks) : loop.tasks[i].id \in ReturnedIds

\* C2 (as stated): a callable scheduled from another context starts only
\* after its Schedule call has returned.
C2_AfterReturn == Range(hist.executed) \subseteq ReturnedIds

\* C2 (amended): a callable never starts while the Schedule call that
\* pushed it still holds the queue mutex (it may start before that call
\* has set the flag and returned).
C2_AfterUnlock ==
    \A c \in Contexts : ctx[c].pc = "locked" => ctx[c].task.id \notin Range(hist.executed)

\* C2 witness: a callable has started while its producer is between the
\* unlock and the flag-set of its Schedule call.
C2_Witness ==
    \E c \in Contexts : ctx[c].pc = "unlocked" /\ ctx[c].task.id \in Range(hist.executed)

\* C5: callables are executed in the order of their push_back: the
\* executed callables are, in order, the first pushed ones.
C5_Fifo ==
    /\ Len(hist.executed) <= Len(hist.scheduled)
    /\ \A i \in 1..Len(hist.executed) : hist.executed[i] = hist.scheduled[i]

\* C5 witness: three callables executed, two by one drain and the third by
\* a later one.
C5_Witness == Len(hist.executed) = 3 /\ hist.batches = <<2, 1>>

\* The order of dispatch the design gives: error, network-up, network-down,
\* activation-done, state-changed, toggle-chat, start-listening,
\* stop-listening, send-audio, wake-word, vad-changed, schedule, clock-tick.
DispatchOrder ==
    <<"ERROR", "NETWORK_CONNECTED", "NETWORK_DISCONNECTED", "ACTIVATION_DONE",
      "STATE_CHANGED", "TOGGLE_CHAT", "START_LISTENING", "STOP_LISTENING",
      "SEND_AUDIO", "WAKE_WORD_DETECTED", "VAD_CHANGE", "SCHEDULE", "CLOCK_TICK">>

Rank(f) == CHOOSE i \in 1..Len(DispatchOrder) : DispatchOrder[i] = f

\* C3: within one wake-up the handlers run in the fixed order of dispatch:
\* the flags handled so far were handled in increasing rank, and every flag
\* of the snapshot still to be handled ranks after all of them, whatever the
\* order in which the flags were set.
C3_FixedOrder ==
    /\ \A i, j \in 1..Len(loop.handled) :
          i < j => Rank(loop.handled[i]) < Rank(loop.handled[j])
    /\ \A i \in 1..Len(loop.handled) :
          \A g \in loop.bits : Rank(loop.handled[i]) < Rank(g)

\* C3 witness: state-changed was set after toggle-chat (it is the flag of
\* the snapshot that was set last), and its handler has run while
\* toggle-chat is still to be handled.
C3_Witness ==
    /\ loop.handled = <<"STATE_CHANGED">>
    /\ "TOGGLE_CHAT" \in loop.bits
    /\ loop.latest = "STATE_CHANGED"

\* The loop is between two xEventGroupWaitBits calls.
InCycle == loop.pc # "wait"

\* C4: no flag that is set is lost: a flag set since its handler last ran
\* is pending in the event group or in the snapshot being handled; while the
\* loop handles a snapshot, a flag set meanwhile stays pending and is not
\* added to that snapshot (a later wake-up takes it); and, handlers
\* returning, again and again every flag set has been handled and cleared.
C4_FlagsHandled ==
    /\ [](app.owed \subseteq (app.event_bits \cup loop.bits))
    /\ [][InCycle => /\ loop'.bits \subseteq loop.bits
                     /\ app.event_bits \subseteq app'.event_bits]_vars
    /\ []<>(app.halted \/ (app.owed = {} /\ app.event_bits \cap ALL_EVENTS = {}))

\* C4 witness: a flag was set while the loop is handling a snapshot, after
\* one handler of that snapshot and before another.
C4_Witness ==
    /\ loop.pc = "run"
    /\ loop.handled # <<>>
    /\ app.event_bits \cap ALL_EVENTS # {}

\* The calls that request a device-state transition, and the calls into the
\* protocol session (its construction and destruction included).
TransitionOps == {"SetDeviceState(same)", "SetDeviceState(new)"}

SessionOps ==
    {"IsAudioChannelOpened", "OpenAudioChannel", "CloseAudioChannel",
     "SendAbortSpeaking", "SendAudio", "SendMcpMessage", "SendStartListening",
     "SendStopListening", "SendWakeWordDetected", "Start",
     "protocol_ = make_unique", "protocol_.reset", "null_session"}

CallsBy(a, c) == {call[2] : call \in {x \in a.calls : x[1] = c}}

CallsOf(a) == {call[2] : call \in a.calls}

\* C6: no button callback requests a device-state transition or calls the
\* session on its own thread.
C6_ButtonsOnlySetFlags ==
    CallsBy(app, "button") \cap (TransitionOps \cup SessionOps) = {}

\* C7: the activation worker requests no device-state transition: every
\* SetDeviceState is called by the control loop.
C7_WorkerNoTransition == CallsBy(app, "worker") \cap TransitionOps = {}

\* C8: the session is created, called, closed and destroyed by the control
\* loop only: no other context makes a call into it or assigns protocol_.
C8_SessionLoopOnly ==
    \A c \in Contexts \cup {"worker"} : CallsBy(app, c) \cap SessionOps = {}

SendAudioStep(a) == <<"loop", "SEND_AUDIO">> \in a.calls

McpStep(a) == <<"loop", "mcp">> \in a.calls

\* C10: with no session, the send-audio block and the callable of
\* SendMcpMessage make no call into a session, dereference nothing null and
\* leave the device state (and the absence of a session) as they are.
C10_NoSessionNoOp ==
    [][(NoProtocol(app) /\ (SendAudioStep(app') \/ McpStep(app')))
          => /\ CallsOf(app') \cap SessionOps = {}
             /\ ~app'.fault /\ ~app'.halted
             /\ app'.device_state = app.device_state
             /\ NoProtocol(app')]_vars

\* C10 witness: the callable of SendMcpMessage has just run with no
\* session (destroyed by the callable of ResetProtocol): nothing else was
\* called, nothing faulted, the device is idle as before.
C10_Witness ==
    /\ NoProtocol(app)
    /\ McpStep(app)
    /\ CallsOf(app) = {"mcp"}
    /\ ~app.fault
    /\ app.device_state = "idle"

\* The send-audio block has just run with no session and discarded a packet.
C10_SendAudioReached ==
    /\ NoProtocol(app)
    /\ SendAudioStep(app)
    /\ CallsOf(app) = {"SEND_AUDIO"}
    /\ app.send_queue = 0

\* 2^n.
RECURSIVE Pow2(_)
Pow2(n) == IF n = 0 THEN 1 ELSE 2 * Pow2(n - 1)

\* The positions of the worker that follow a successful CheckVersion
\* inside CheckNewVersion.
AfterSuccess == {"upgrade", "upgrade_delay", "upgrade_download", "activate", "activate_delay"}

\* C11: the backoff of the version check: with k consecutive failures so
\* far the delay of the wait is 10 * 2^(k-1) seconds (10, 20, 40, ...), the
\* next attempt finds the delay at 10 * 2^k, a successful check puts the
\* counter back to 0 and the delay back to 10, and an attempt is made only
\* with fewer than 10 consecutive failures behind it, so that there are
\* never more than 10.
C11_Backoff ==
    /\ worker.retry_count \in 0..MAX_RETRY
    /\ worker.pc = "retry_wait" =>
          /\ worker.retry_count \in 1..(MAX_RETRY - 1)
          /\ worker.retry_delay = 10 * Pow2(worker.retry_count - 1)
    /\ worker.pc = "check_version" =>
          /\ worker.retry_count < MAX_RETRY
          /\ worker.retry_delay = 10 * Pow2(worker.retry_count)
    /\ worker.pc \in AfterSuccess => worker.retry_count = 0 /\ worker.retry_delay = 10
    /\ worker.retry_count = MAX_RETRY => worker.pc \in {"init_protocol", "protocol_start", "signal", "exit"}

\* C11 witness: the wait after the ninth consecutive failure, 2560 seconds.
C11_Witness ==
    worker.pc = "retry_wait" /\ worker.retry_count = 9 /\ worker.retry_delay = 2560

\* The step just made is the failure branch of UpgradeFirmware.
UpgradeFailedStep(a) == <<"worker", "audio_service_.Start">> \in a.calls

\* C12: when a firmware download-and-flash has failed, the audio service is
\* running again when UpgradeFirmware returns, and the device, left in
\* Upgrading, leaves Upgrading later (or the program ends), also when the
\* server's answer holds an activation code that is still pending.
C12_UpgradeFailureRecovers ==
    /\ [](UpgradeFailedStep(app) => app.audio_running)
    /\ (UpgradeFailedStep(app) /\ app.device_state = "upgrading")
           ~> (app.device_state # "upgrading" \/ app.halted)

\* The upgrade has failed and the activation attempts go on with the device
\* still in Upgrading.
C12_PendingReached ==
    /\ worker.pc = "activate_delay"
    /\ worker.i = ActivateTries - 1
    /\ app.device_state = "upgrading"
    /\ app.audio_running

\* The step just made is the if-block of flag f in Run.
HandlerStep(a, f) == <<"loop", f>> \in a.calls

\* C13 (scenario A): the toggle-chat handler, run with a session in Idle,
\* ends in Listening whenever the audio channel is open at its end (it was
\* open already, or the open succeeded), in mode AutoStop when AEC is off
\* and in mode Realtime when AEC is on the device or on the server side.
C13_ToggleFromIdle ==
    [][(/\ HandlerStep(app', "TOGGLE_CHAT")
        /\ ~NoProtocol(app)
        /\ app.device_state = "idle"
        /\ app'.channel_opened)
          => /\ app'.device_state = "listening"
             /\ app'.listening_mode =
                    IF app.aec_mode = "off" THEN "auto_stop" ELSE "realtime"]_vars

\* C13 witness: the toggle-chat handler has opened the channel from Idle
\* with AEC off and left the device in Listening, mode AutoStop.
C13_Witness ==
    /\ HandlerStep(app, "TOGGLE_CHAT")
    /\ <<"loop", "OpenAudioChannel">> \in app.calls
    /\ app.channel_opened
    /\ app.aec_mode = "off"
    /\ app.device_state = "listening"
    /\ app.listening_mode = "auto_stop"

\* The same with AEC on the server side: mode Realtime.
C13_RealtimeReached ==
    /\ HandlerStep(app, "TOGGLE_CHAT")
    /\ <<"loop", "OpenAudioChannel">> \in app.calls
    /\ app.aec_mode = "on_server_side"
    /\ app.device_state = "listening"
    /\ app.listening_mode = "realtime"

\* The step just made is the drain running a callable of kind k.
TaskStep(a, k) == <<"loop", k>> \in a.calls

\* C14 (scenario B): when the callable of an incoming tts start has run,
\* the abort flag is false and the device is Speaking, whatever the flag and
\* the state were before; in particular when the message came in Speaking.
C14_TtsStart ==
    [][TaskStep(app', "tts_start") => ~app'.aborted /\ app'.device_state = "speaking"]_vars

\* C14 witness: the callable of a tts start has run with the device in
\* Speaking (its request was for the state held): Speaking, flag clear.
C14_Witness ==
    /\ TaskStep(app, "tts_start")
    /\ <<"loop", "SetDeviceState(same)">> \in app.calls
    /\ app.device_state = "speaking"
    /\ ~app.aborted

\* The callable of a tts start never runs with the abort flag set: refuted,
\* it runs after an abort requested in Speaking.
C14_AbortedBefore == [][~(app.aborted /\ TaskStep(app', "tts_start"))]_vars

\* C15 (scenario C): the callable of an incoming tts stop, run in Speaking,
\* sets Idle when the listening mode is ManualStop and Listening in the modes
\* AutoStop and Realtime; run in any other state it leaves the state as it is.
C15_TtsStop ==
    [][TaskStep(app', "tts_stop")
          => app'.device_state =
                IF app.device_state # "speaking" THEN app.device_state
                ELSE IF app.listening_mode = "manual_stop" THEN "idle"
                ELSE "listening"]_vars

\* C15 witness: the callable of a tts stop has run in Speaking, mode
\* ManualStop, and changed the state to Idle.
C15_Witness ==
    /\ TaskStep(app, "tts_stop")
    /\ <<"loop", "SetDeviceState(new)">> \in app.calls
    /\ app.listening_mode = "manual_stop"
    /\ app.device_state = "idle"

\* The same in mode Realtime: Listening.
C15_ListeningReached ==
    /\ TaskStep(app, "tts_stop")
    /\ <<"loop", "SetDeviceState(new)">> \in app.calls
    /\ app.listening_mode = "realtime"
    /\ app.device_state = "listening"

\* The callable of a tts stop has run outside Speaking and requested nothing.
C15_UnchangedReached ==
    /\ TaskStep(app, "tts_stop")
    /\ CallsOf(app) = {"tts_stop"}
    /\ app.device_state \in {"idle", "listening"}

\* The states in which a conversation holds, or is opening, the channel.
ChannelStates == {"connecting", "listening", "speaking"}

\* C16 (scenario D): the network-disconnected handler, run with a session
\* in Connecting, Listening or Speaking, requests the closure of the
\* session's audio channel; run in any other state it makes no call into
\* the session; in no state does it change the device state.
C16_NetworkDisconnected ==
    [][HandlerStep(app', "NETWORK_DISCONNECTED")
          => /\ (app.device_state \in ChannelStates /\ ~NoProtocol(app))
                    => /\ <<"loop", "CloseAudioChannel">> \in app'.calls
                       /\ ~app'.channel_opened
             /\ app.device_state \notin ChannelStates
                    => /\ CallsOf(app') \cap SessionOps = {}
                       /\ app'.channel_opened = app.channel_opened
                       /\ ~app'.fault
             /\ app'.device_state = app.device_state]_vars

\* C16 witness: the handler has run in Listening with the channel open and
\* requested its closure; the closed callback is still to come.
C16_Witness ==
    /\ HandlerStep(app, "NETWORK_DISCONNECTED")
    /\ <<"loop", "CloseAudioChannel">> \in app.calls
    /\ app.device_state = "listening"
    /\ app.close_pending

\* The handler has run in Idle: nothing called, nothing changed.
C16_IdleReached ==
    /\ HandlerStep(app, "NETWORK_DISCONNECTED")
    /\ CallsOf(app) = {"NETWORK_DISCONNECTED"}
    /\ app.device_state = "idle"

\* The handler has run in Connecting (after an open that failed) and in
\* Speaking.
C16_ConnectingReached ==
    /\ HandlerStep(app, "NETWORK_DISCONNECTED")
    /\ <<"loop", "CloseAudioChannel">> \in app.calls
    /\ app.device_state = "connecting"

C16_SpeakingReached ==
    /\ HandlerStep(app, "NETWORK_DISCONNECTED")
    /\ <<"loop", "CloseAudioChannel">> \in app.calls
    /\ app.device_state = "speaking"

\* The step just made is the session's OnNetworkError callback.
NetworkErrorStep(a) == <<"io", "OnNetworkError">> \in a.calls

\* C17: the session's error callback, in whatever state the device is,
\* stores the message and sets the error flag, and changes nothing else of
\* the device state; the loop's error block sets the device state to Idle
\* and alerts the user, dereferences nothing null and does not end the
\* program: the loop goes on to the next flag or to the next wait.
C17_ErrorToIdle ==
    [][/\ NetworkErrorStep(app')
            => /\ "ERROR" \in app'.event_bits
               /\ app'.last_error # ""
               /\ app'.device_state = app.device_state
               /\ loop' = loop
       /\ HandlerStep(app', "ERROR")
            => /\ app'.device_state = "idle"
               /\ <<"loop", "Alert">> \in app'.calls
               /\ ~app'.fault /\ ~app'.halted
               /\ loop'.pc \in {"wait", "run"}]_vars

\* C17 witness: the error block has run after a network error reported
\* outside Idle: the state was changed to Idle and the user alerted.
C17_Witness ==
    /\ HandlerStep(app, "ERROR")
    /\ <<"loop", "SetDeviceState(new)">> \in app.calls
    /\ <<"loop", "Alert">> \in app.calls
    /\ app.last_error = "network_error"
    /\ app.device_state = "idle"
    /\ ~app.halted

\* The error callback has fired in Speaking.
C17_ErrorInSpeakingReached ==
    NetworkErrorStep(app) /\ app.device_state = "speaking" /\ "ERROR" \in app.event_bits

\* The step just made is a handler of the loop whose OpenAudioChannel failed.
OpenFailedStep(a) == <<"loop", "OpenAudioChannel">> \in a.calls /\ ~a.channel_opened

\* C18: after an OpenAudioChannel that failed inside the toggle-chat,
\* start-listening or wake-word handler the device does not stay in
\* Connecting: it leaves Connecting later (or the program ends).
C18_OpenFailureReverts ==
    OpenFailedStep(app) ~> (app.device_state # "connecting" \/ app.halted)

\* The open has failed in the toggle-chat handler without an error report,
\* and the loop is back in its wait with nothing pending: Connecting.
C18_StuckReached ==
    /\ LoopBlocked
    /\ app.main_tasks = <<>>
    /\ \A c \in Contexts : ~InSchedule(c)
    /\ app.device_state = "connecting"
    /\ app.last_error = ""
    /\ ~app.channel_opened /\ ~app.close_pending

\* In Connecting the toggle-chat, start-listening and wake-word handlers
\* request nothing: a press or a wake word starts no new attempt.
C18_NoRetryInConnecting ==
    [][(/\ app.device_state = "connecting"
        /\ \/ HandlerStep(app', "TOGGLE_CHAT")
           \/ HandlerStep(app', "START_LISTENING")
           \/ HandlerStep(app', "WAKE_WORD_DETECTED"))
          => /\ app'.device_state = "connecting"
             /\ CallsOf(app') \cap SessionOps = {}]_vars

\* The callable of SetAecMode has just requested the closure of the channel.
AecCloseStep(a) == TaskStep(a, "aec") /\ <<"loop", "CloseAudioChannel">> \in a.calls

\* C19: the callable SetAecMode schedules requests the closure of the audio
\* channel when it finds a session with the channel open, and requests no
\* closure when there is no session or the channel is not open; after a
\* closure it requested, the closed callback being delivered by the session
\* while it exists, the device becomes Idle (or the program ends, or the
\* session is destroyed before it has delivered the callback).
C19_AecModeCloses ==
    /\ [][TaskStep(app', "aec")
             => IF ~NoProtocol(app) /\ app.channel_opened
                THEN /\ <<"loop", "CloseAudioChannel">> \in app'.calls
                     /\ ~app'.channel_opened /\ app'.close_pending
                     /\ app'.device_state = app.device_state
                ELSE /\ "CloseAudioChannel" \notin CallsOf(app')
                     /\ ~app'.fault
                     /\ app'.close_pending = app.close_pending
                     /\ app'.device_state = app.device_state]_vars
    /\ AecCloseStep(app) ~> (app.device_state = "idle" \/ app.halted \/ NoProtocol(app))

\* C19 witness: the callable of the closed callback has set Idle, with the
\* AEC mode changed to the device side and the channel no longer open.
C19_Witness ==
    /\ TaskStep(app, "channel_closed")
    /\ <<"loop", "SetDeviceState(new)">> \in app.calls
    /\ app.aec_mode = "on_device_side"
    /\ ~app.afe_wake_word
    /\ app.device_state = "idle"
    /\ ~app.channel_opened /\ ~app.close_pending

\* The callable of SetAecMode has requested a closure in Listening.
C19_CloseReached == AecCloseStep(app) /\ app.device_state = "listening" /\ app.close_pending

\* The callable of SetAecMode has run with the channel closed, and with no
\* session: nothing requested.
C19_ClosedReached ==
    TaskStep(app, "aec") /\ CallsOf(app) = {"aec", "IsAudioChannelOpened"} /\ ~NoProtocol(app)

C19_NoSessionReached == TaskStep(app, "aec") /\ CallsOf(app) = {"aec"} /\ NoProtocol(app)

\* Connecting is left only by the error block of Run or by a callable of a
\* session callback (channel closed, tts start), never by a button, a wake
\* word or the clock.
C18_LeavesConnectingBy ==
    [][(app.device_state = "connecting" /\ app'.device_state # "connecting")
          => \/ HandlerStep(app', "ERROR")
             \/ TaskStep(app', "channel_closed")
             \/ TaskStep(app', "tts_start")]_vars

\* The step just made is OnIncomingJson with an unexpected message.
UnexpectedStep(a) == \E k \in Unexpected : <<"io", k>> \in a.calls

\* C20: an unexpected message of the server (unknown type, no type, tts
\* without state, a missing text, emotion, payload or command) is ignored
\* by OnIncomingJson: nothing null is dereferenced, the program does not
\* end, no callable is scheduled and the device state stays as it is.
C20_UnexpectedIgnored ==
    [][UnexpectedStep(app')
          => /\ ~app'.fault /\ ~app'.halted
             /\ app'.device_state = app.device_state
             /\ app'.main_tasks = app.main_tasks
             /\ app'.event_bits = app.event_bits]_vars

\* The part of C20 that holds: a message of unknown type, or of a known
\* type with a field missing, is ignored.
C20_GuardedIgnored ==
    [][(<<"io", "unknown_type">> \in app'.calls \/ <<"io", "missing_field">> \in app'.calls)
          => /\ ~app'.fault /\ ~app'.halted
             /\ app'.device_state = app.device_state
             /\ app'.main_tasks = app.main_tasks
             /\ app'.event_bits = app.event_bits]_vars

\* A tts message without state has ended the program in Listening.
C20_CrashReached ==
    /\ <<"io", "tts_no_state">> \in app.calls
    /\ app.halted
    /\ app.device_state = "listening"

\* C21: no handler uses an absent session: whenever the
\* network-disconnected handler runs in Connecting, Listening or Speaking,
\* or the state-changed handler runs in Listening, a session exists, and the
\* handler dereferences nothing null.
C21_HandlersHaveSession ==
    [][(\/ HandlerStep(app', "NETWORK_DISCONNECTED") /\ app.device_state \in ChannelStates
        \/ HandlerStep(app', "STATE_CHANGED") /\ app.device_state = "listening")
          => ~NoProtocol(app) /\ <<"loop", "null_session">> \notin app'.calls]_vars

\* The state-changed handler has run in Listening after the callable of
\* ResetProtocol destroyed the session, and protocol_->SendStartListening
\* has ended the program.
C21_StateChangedReached ==
    /\ HandlerStep(app, "STATE_CHANGED")
    /\ <<"loop", "null_session">> \in app.calls
    /\ NoProtocol(app)
    /\ app.device_state = "listening"
    /\ app.halted

\* The network-disconnected handler has run in Speaking with no session and
\* called protocol_->CloseAudioChannel.
C21_DisconnectedReached ==
    /\ HandlerStep(app, "NETWORK_DISCONNECTED")
    /\ <<"loop", "null_session">> \in app.calls
    /\ NoProtocol(app)
    /\ app.device_state = "speaking"

\* A tts start callable scheduled before the session was reset has run
\* after it: Speaking with no session.
C21_TtsStartAfterResetReached ==
    /\ TaskStep(app, "tts_start")
    /\ NoProtocol(app)
    /\ app.device_state = "speaking"

\* The positions of the activation task up to InitializeProtocol.
BeforeProtocol ==
    {"start", "assets_delay", "assets_download", "assets_failed", "check_version",
     "retry_wait", "upgrade", "upgrade_delay", "upgrade_download", "activate",
     "activate_delay", "init_protocol"}

\* The step just made assigned a new session to protocol_.
SessionCreatedStep(a) == "protocol_ = make_unique" \in CallsOf(a)

\* The step just made is the callable of ResetProtocol, or Reboot.
SessionEndStep(a) ==
    TaskStep(a, "reset_protocol") \/ TaskStep(a, "reboot") \/ <<"worker", "protocol_.reset">> \in a.calls

\* C22: the life of the session: there is none while the activation task
\* has not run InitializeProtocol; a session is created only by
\* InitializeProtocol and only when there is none (it never replaces one);
\* once created it stays until the callable of ResetProtocol or Reboot runs,
\* whatever the conversation does; after that callable there is none, and
\* none is created again.
C22_SessionLifetime ==
    /\ [](worker.pc \in BeforeProtocol => NoProtocol(app))
    /\ [][SessionCreatedStep(app') => NoProtocol(app) /\ worker.pc = "init_protocol"]_vars
    /\ [][(NoProtocol(app) /\ ~NoProtocol(app')) => SessionCreatedStep(app')]_vars
    /\ [][(~NoProtocol(app) /\ ~SessionEndStep(app')) => app'.protocol = app.protocol]_vars
    /\ [][SessionEndStep(app') => NoProtocol(app')]_vars
    /\ [][(NoProtocol(app) /\ worker.pc \notin BeforeProtocol) => NoProtocol(app')]_vars

\* C22 witness: the callable of ResetProtocol has run during a conversation
\* (it closed the open channel) and destroyed the session the activation
\* task had created; the activation task is gone.
C22_Witness ==
    /\ TaskStep(app, "reset_protocol")
    /\ <<"loop", "CloseAudioChannel">> \in app.calls
    /\ <<"loop", "protocol_.reset">> \in app.calls
    /\ NoProtocol(app)
    /\ app.device_state = "listening"
    /\ worker.pc = "none"

\* The session has lasted through a conversation: Idle again after
\* Listening, by the closed callback's callable, with the session in place.
C22_CycleReached ==
    /\ TaskStep(app, "channel_closed")
    /\ <<"loop", "SetDeviceState(new)">> \in app.calls
    /\ ~NoProtocol(app)
    /\ app.device_state = "idle"
    /\ worker.pc = "none"

\* A system reboot command has run Reboot: no session, the program ended.
C22_RebootReached == TaskStep(app, "reboot") /\ NoProtocol(app) /\ app.halted

\* The numbered callables in queue q that were pushed while the loop was at
\* position at of its wake-up.
PushedDuring(q, at) == {q[i].id : i \in {j \in 1..Len(q) : q[j].at = at /\ q[j].id # 0}}

\* The loop is inside the drain step: the queue is moved, the for loop runs.
InDrain == loop.pc \in {"locked", "exec"}

\* C23: a callable pushed while the loop executes the drain step (by a
\* callable being drained or by another context) is not among the callables
\* that drain runs: it is in the fresh queue; once its Schedule call has
\* returned the schedule flag is set again; and it is executed later, by the
\* drain of another wake-up.
C23_NotInSameDrain ==
    /\ [](PushedDuring(loop.tasks, "drain") = {})
    /\ []((PushedDuring(app.main_tasks, "drain") \ {ctx[c].task.id : c \in {d \in Contexts : InSchedule(d)}} # {})
             => "SCHEDULE" \in app.event_bits)
    /\ \A id \in 1..MaxTasks :
          (id \in PushedDuring(app.main_tasks, "drain")) ~> (id \in Range(hist.executed))

\* C23 witness: the for loop of the drain has started one callable and has
\* one more to run, while a callable pushed during this drain sits in the
\* fresh queue, its Schedule call returned and the schedule flag set again.
C23_Witness ==
    /\ loop.pc = "exec"
    /\ hist.batches = <<1>>
    /\ Len(loop.tasks) = 1
    /\ PushedDuring(app.main_tasks, "drain") # {}
    /\ \A c \in Contexts : ~InSchedule(c)
    /\ "SCHEDULE" \in app.event_bits

\* The same with the push made by another context during the for loop, its
\* Schedule call not yet returned.
C23_OtherContextReached ==
    /\ InDrain
    /\ \E c \in Contexts :
          /\ InSchedule(c)
          /\ ctx[c].task.id \in PushedDuring(app.main_tasks, "drain")
          /\ ctx[c].task.id \notin PushedDuring(loop.tasks, "old")

\* C24 (as stated): no callable pushed after the loop took the snapshot of
\* a wake-up is executed during that wake-up: the drain runs only callables
\* that were queued before the snapshot.
C24_NeverSameCycle ==
    PushedDuring(loop.tasks, "cycle") \cup PushedDuring(loop.tasks, "drain") = {}

\* C24 (amended): a callable is started by the for loop of the drain only,
\* never inside Schedule; a callable pushed after the drain of a wake-up has
\* moved the queue (or in a wake-up whose snapshot has no schedule flag) is
\* not executed during that wake-up; a callable pushed between the snapshot
\* and the move, in a wake-up whose snapshot has the schedule flag, is taken
\* by that wake-up's drain.
C24_NextDrain ==
    /\ [][hist'.executed # hist.executed => loop.pc = "exec"]_vars
    /\ [](PushedDuring(loop.tasks, "drain") = {})
    /\ [][(loop.pc = "run" /\ loop'.pc = "locked")
             => /\ PushedDuring(loop'.tasks, "cycle") = PushedDuring(app.main_tasks, "cycle")
                /\ PushedDuring(app'.main_tasks, "cycle") = {}]_vars

\* C24 witness: the for loop of the drain is about to run a callable that
\* was pushed after the snapshot of this wake-up was taken.
C24_Witness ==
    /\ loop.pc = "exec"
    /\ Head(loop.tasks).id \in PushedDuring(loop.tasks, "cycle")

\* The step just made is the toggle-chat, start-listening or stop-listening
\* block of Run.
ChatHandlerStep(a) ==
    HandlerStep(a, "TOGGLE_CHAT") \/ HandlerStep(a, "START_LISTENING")
        \/ HandlerStep(a, "STOP_LISTENING")

\* C25: when the toggle-chat, start-listening or stop-listening handler
\* runs, the state-changed handler has run for the device state it observes:
\* no state-changed flag set by a transition is still waiting for its handler.
C25_EffectsBeforeHandlers ==
    [][ChatHandlerStep(app') => "STATE_CHANGED" \notin app.owed]_vars

\* Start-listening and stop-listening were consumed in one snapshot in Idle:
\* the stop-listening handler has observed Listening, sent stop-listening
\* and set Idle, while the state-changed handler has not run for Listening
\* (no start-listening sent, voice processing off).
C25_StopInSameCycleReached ==
    /\ HandlerStep(app, "STOP_LISTENING")
    /\ loop.handled = <<>>
    /\ <<"loop", "SendStopListening">> \in app.calls
    /\ ~app.voice_processing
    /\ app.listening_mode = "manual_stop"
    /\ app.device_state = "idle"
    /\ "STATE_CHANGED" \in app.event_bits

\* The positions of the activation task after CheckNewVersion.
AfterVersionCheck == {"init_protocol", "protocol_start", "signal", "exit"}

\* C26: the tenth consecutive failure of the version check makes the task
\* leave CheckNewVersion at once, with no alert, wait or further attempt;
\* the task goes on to InitializeProtocol and signals activation-done, and
\* the device becomes Idle with a session.
C26_FailOpen ==
    /\ [][(worker.retry_count = MAX_RETRY - 1 /\ worker'.retry_count = MAX_RETRY)
             => worker'.pc = "init_protocol" /\ "Alert" \notin CallsOf(app')]_vars
    /\ [](worker.retry_count = MAX_RETRY => worker.pc \in AfterVersionCheck)
    /\ (worker.retry_count = MAX_RETRY /\ worker.pc = "init_protocol")
           ~> (app.device_state = "idle" /\ ~NoProtocol(app) /\ ~app.halted)

\* C26 witness: after ten failures of the version check the handler of
\* activation-done has run: Idle, with the session InitializeProtocol made.
C26_Witness ==
    /\ HandlerStep(app, "ACTIVATION_DONE")
    /\ worker.retry_count = MAX_RETRY
    /\ worker.pc = "exit"
    /\ app.device_state = "idle"
    /\ ~NoProtocol(app)
    /\ ~app.halted

\* The states in which a network-connected event starts the activation.
BeforeActivation == {"starting", "wifi_configuring"}

\* The step just made created the activation task.
TaskCreatedStep == ~app.activation_task /\ app'.activation_task

\* C27: the activation task is created only by the network-connected
\* handler run in Starting or WifiConfiguring, only when no activation task
\* exists and none has run before; a network-connected event handled in
\* another state, or while the task is running, creates none; the handle
\* is set exactly while the task exists.
C27_ActivationOnce ==
    /\ [][TaskCreatedStep
             => /\ HandlerStep(app', "NETWORK_CONNECTED")
                /\ app.device_state \in BeforeActivation
                /\ worker.pc = "none" /\ worker' = WorkerCreated
                /\ ~app.assets_version_checked]_vars
    /\ [][(HandlerStep(app', "NETWORK_CONNECTED")
             /\ (app.device_state \notin BeforeActivation \/ app.activation_task))
             => worker' = worker /\ app'.activation_task = app.activation_task]_vars
    /\ [][(worker.pc # "start" /\ worker'.pc = "start") => TaskCreatedStep]_vars
    /\ [](app.activation_task <=> worker.pc # "none")

\* C27 witness: a network-connected event has been handled while the
\* activation task, created by an earlier one, was inside CheckNewVersion:
\* nothing was requested and the task goes on.
C27_Witness ==
    /\ HandlerStep(app, "NETWORK_CONNECTED")
    /\ CallsOf(app) = {"NETWORK_CONNECTED"}
    /\ app.activation_task
    /\ worker.pc = "retry_wait"
    /\ app.device_state = "activating"

\* A network-connected event has been handled in AudioTesting, entered
\* from WifiConfiguring before any activation: no task.
C27_AudioTestingReached ==
    /\ HandlerStep(app, "NETWORK_CONNECTED")
    /\ CallsOf(app) = {"NETWORK_CONNECTED"}
    /\ app.device_state = "audio_testing"
    /\ ~app.activation_task
    /\ worker.pc = "none"

\* A network-connected event has been handled in Idle, after the task has
\* ended: no task.
C27_AfterActivationReached ==
    /\ HandlerStep(app, "NETWORK_CONNECTED")
    /\ CallsOf(app) = {"NETWORK_CONNECTED"}
    /\ app.device_state = "idle"
    /\ ~NoProtocol(app)
    /\ worker.pc = "none"

\* The step just made is an ota_->Activate() call with the given result.
ActivateStep(a, result) == <<"worker", ActivateCall(result)>> \in a.calls

\* C28: one round of confirmation polling: at most 10 Activate() calls (the
\* round is at its i-th failed attempt, i < 10); the first ESP_OK ends the
\* round with no delay; a failure is followed by a delay of 3 s after
\* ESP_ERR_TIMEOUT and of 10 s after another error; after the delay the
\* round ends when the device is Idle or the attempt was the tenth, and
\* otherwise goes on with the next attempt.
C28_Polling ==
    /\ [](worker.pc \in {"activate", "activate_delay"} => worker.i \in 0..(ActivateTries - 1))
    /\ [][ActivateStep(app', "ok")
             => /\ worker'.pc = "check_version"
                /\ CallsOf(app') \cap {"vTaskDelay(3000)", "vTaskDelay(10000)"} = {}]_vars
    /\ [][ActivateStep(app', "timeout")
             => /\ worker'.pc = "activate_delay" /\ worker'.i = worker.i
                /\ CallsOf(app') \cap {"vTaskDelay(3000)", "vTaskDelay(10000)"} = {"vTaskDelay(3000)"}]_vars
    /\ [][ActivateStep(app', "error")
             => /\ worker'.pc = "activate_delay" /\ worker'.i = worker.i
                /\ CallsOf(app') \cap {"vTaskDelay(3000)", "vTaskDelay(10000)"} = {"vTaskDelay(10000)"}]_vars
    /\ [][(worker.pc = "activate_delay" /\ worker' # worker)
             => IF app.device_state = "idle" \/ worker.i = ActivateTries - 1
                THEN worker'.pc = "check_version"
                ELSE worker'.pc = "activate" /\ worker'.i = worker.i + 1]_vars
    /\ [][(worker.pc # "activate" /\ worker'.pc = "activate")
             => worker'.i = IF worker.pc = "activate_delay" THEN worker.i + 1 ELSE 0]_vars

\* C28 witness: the tenth attempt of a round has timed out and its 3 s
\* delay is running.
C28_Witness ==
    /\ worker.pc = "activate_delay"
    /\ worker.i = ActivateTries - 1
    /\ <<"worker", "Activate=timeout">> \in app.calls
    /\ <<"worker", "vTaskDelay(3000)">> \in app.calls

\* A round has ended because the device was seen Idle after a delay: the
\* task is back at the version check.
C28_EarlyStopReached ==
    /\ <<"worker", "break(idle)">> \in app.calls
    /\ worker.pc = "check_version"
    /\ worker.retry_count = 0
    /\ app.device_state = "idle"
    /\ NoProtocol(app)

\* A round has ended by a successful Activate().
C28_SuccessReached == <<"worker", "Activate=ok">> \in app.calls /\ worker.pc = "check_version"

\* The step just made is a checkpoint of CheckNewVersion at which the
\* activation task saw the device Idle and left its wait or polling loop.
IdleSeenStep(a) == <<"worker", "break(idle)">> \in a.calls

\* C29: when the activation task sees the device Idle at a checkpoint of
\* CheckNewVersion, it leaves CheckNewVersion: its next step is not another
\* CheckVersion() or Activate() call but the rest of the workflow.
C29_AbortOnIdle ==
    [][IdleSeenStep(app') => worker'.pc \in AfterVersionCheck]_vars

\* The user has forced Idle during the wait that follows a failed version
\* check; the wait has ended early and the task is about to call
\* CheckVersion() again, with the delay doubled.
C29_RetryAfterIdleReached ==
    /\ IdleSeenStep(app)
    /\ worker.pc = "check_version"
    /\ worker.retry_count = 1
    /\ worker.retry_delay = 20
    /\ app.device_state = "idle"

\* The version check is attempted again and again in Idle: the ninth
\* failure's wait has ended at once.
C29_NinthRetryInIdleReached ==
    /\ IdleSeenStep(app)
    /\ worker.pc = "check_version"
    /\ worker.retry_count = MAX_RETRY - 1
    /\ app.device_state = "idle"

\* The step just made is the return of a failed assets.Download, and the
\* return of CheckAssetsVersion that follows it.
DownloadFailedStep == worker.pc = "assets_download" /\ worker'.pc = "assets_failed"

AssetsFailedReturn == worker.pc = "assets_failed" /\ worker'.pc # "assets_failed"

\* C30: when the download of new assets fails, the user is alerted,
\* CheckAssetsVersion returns with the device state set to Activating and
\* the stored download_url still in place, and the task goes on with the
\* version check; the stored download_url is removed only by a step that
\* ends a successful download.
C30_FailureRequeues ==
    /\ [][DownloadFailedStep => <<"worker", "Alert">> \in app'.calls]_vars
    /\ [][AssetsFailedReturn
             => /\ app'.device_state = "activating"
                /\ worker'.pc = "check_version"
                /\ app'.download_url]_vars
    /\ [][(app.download_url /\ ~app'.download_url)
             => worker.pc = "assets_download" /\ worker'.pc = "check_version"]_vars

\* The part of C30 that holds: the failure is alerted, the device state is
\* set to Activating and the task goes on with the version check.
C30_FailureContinues ==
    /\ [][DownloadFailedStep => <<"worker", "Alert">> \in app'.calls]_vars
    /\ [][AssetsFailedReturn
             => app'.device_state = "activating" /\ worker'.pc = "check_version"]_vars

\* The download has failed and the task is at the version check, in
\* Activating, with no download_url stored.
C30_MarkerLostReached ==
    /\ worker.pc = "check_version"
    /\ <<"worker", "SetDeviceState(new)">> \in app.calls
    /\ app.device_state = "activating"
    /\ app.assets_version_checked
    /\ ~app.download_url

\* The step just made belongs to a callback of the session on its I/O
\* context (the callback itself or the Schedule call it is inside).
SessionCallbackStep == ctx'["io"] # ctx["io"] \/ CallsBy(app', "io") # {}

\* The callables the session's callbacks hand to Schedule.
SessionTaskKinds == {"channel_closed", "tts_start", "tts_stop", "reboot"}

\* The step just made is the loop running what a session callback asked for.
MarshalledStep(a) ==
    HandlerStep(a, "ERROR") \/ \E k \in SessionTaskKinds : TaskStep(a, k)

\* C31: the session's I/O context never requests a device-state transition,
\* and no step of a session callback changes the device state or moves the
\* loop; the transitions the callbacks cause (tts start, tts stop, reboot,
\* channel closed, network error) are requested by the loop thread, while it
\* runs a scheduled callable or the error block of Run.
C31_CallbacksMarshal ==
    /\ [](CallsBy(app, "io") \cap TransitionOps = {})
    /\ [][SessionCallbackStep
             => app'.device_state = app.device_state /\ loop' = loop]_vars
    /\ [][MarshalledStep(app')
             => /\ loop.pc \in {"run", "exec"}
                /\ loop' # loop
                /\ ctx' = ctx
                /\ \A call \in app'.calls :
                      call[2] \in TransitionOps => call[1] = "loop"
                /\ app'.device_state # app.device_state
                      => <<"loop", "SetDeviceState(new)">> \in app'.calls]_vars

\* C31 witness: the loop has run the callable of the channel-closed callback
\* in its drain, and that callable changed the device state to Idle.
C31_Witness ==
    /\ TaskStep(app, "channel_closed")
    /\ <<"loop", "SetDeviceState(new)">> \in app.calls
    /\ CallsBy(app, "io") = {}
    /\ app.device_state = "idle"
    /\ ~app.channel_opened

\* A callback has pushed its tts start callable while the device is
\* Listening: the state is still Listening when the callback returns.
C31_PushedInListeningReached ==
    /\ ctx["io"].pc = "locked"
    /\ ctx["io"].task.kind = "tts_start"
    /\ app.device_state = "listening"

\* The loop is blocked in xEventGroupWaitBits with no flag pending and an
\* empty task queue, no Schedule call is in progress and the session owes
\* no closed callback: nothing is left to run until the next outside event.
Quiescent ==
    /\ Running
    /\ loop.pc = "wait"
    /\ app.event_bits = {}
    /\ app.main_tasks = <<>>
    /\ \A c \in Contexts : ctx[c].pc = "idle"
    /\ ~app.close_pending

\* C32: in every quiescent state with a session, a device state of
\* Listening or Speaking comes with an open audio channel.
C32_ChannelOpenWhenTalking ==
    Quiescent /\ ~NoProtocol(app) /\ app.device_state \in {"listening", "speaking"}
        => IsAudioChannelOpened(app)

\* The callable of ResetProtocol has run in Listening: the device stays in
\* Listening with no session at all.
C32_NoSessionReached ==
    Quiescent /\ NoProtocol(app) /\ app.device_state = "listening"

\* A tts start callable has left the device in Speaking with a session
\* whose audio channel is closed, and nothing is left to run.
C32_SpeakingClosedReached ==
    /\ Quiescent
    /\ ~NoProtocol(app)
    /\ app.device_state = "speaking"
    /\ ~IsAudioChannelOpened(app)

\* The start-listening handler, run in Speaking, has entered Listening on a
\* closed channel: the start-listening command was sent on it.
C32_ListeningClosedReached ==
    /\ Quiescent
    /\ ~NoProtocol(app)
    /\ app.device_state = "listening"
    /\ app.listening_mode = "manual_stop"
    /\ ~IsAudioChannelOpened(app)
    /\ <<"loop", "SendStartListening">> \in app.calls

\* The toggle-chat and start-listening handlers enter Listening from Idle
\* with the channel open only.
C32_FromIdleOpen ==
    [][(/\ app.device_state = "idle"
        /\ app'.device_state = "listening"
        /\ (HandlerStep(app', "TOGGLE_CHAT") \/ HandlerStep(app', "START_LISTENING")))
          => IsAudioChannelOpened(app')]_vars

\* The step just made is the stop-listening handler sending its command.
StopSentStep(a) ==
    HandlerStep(a, "STOP_LISTENING") /\ <<"loop", "SendStopListening">> \in a.calls

\* The state-changed handler has run since the device state last changed
\* and the audio processor runs: in Listening, the start-listening command
\* of SendStartListening was sent when the processor was started.
StartWasSent(a) == "STATE_CHANGED" \notin a.owed /\ a.voice_processing

\* C33: the stop-listening handler sends its command only for a listening
\* turn whose start-listening command has been sent: when it runs, the
\* state-changed handler has handled the entry into Listening.
C33_StopAfterStart == [][StopSentStep(app') => StartWasSent(app)]_vars

\* The part of C33 that holds: a stop sent after the state-changed handler
\* has handled Listening follows a start-listening command.
C33_StopAfterHandledEntry ==
    [][StopSentStep(app') /\ "STATE_CHANGED" \notin app.owed
          => app.voice_processing /\ app.device_state = "listening"]_vars

\* Start-listening and stop-listening were taken in one wake-up from Idle:
\* the stop command was sent on the channel just opened, no start-listening
\* command before it, and the device is back in Idle.
C33_StopWithoutStartReached ==
    /\ StopSentStep(app)
    /\ app.listening_mode = "manual_stop"
    /\ ~app.voice_processing
    /\ app.channel_opened
    /\ app.device_state = "idle"
    /\ CallsBy(app, "button") = {}

\* A stop command sent in a later wake-up, after the start command.
C33_StopAfterStartReached ==
    /\ StopSentStep(app)
    /\ app.voice_processing
    /\ "STATE_CHANGED" \in app.event_bits
    /\ app.device_state = "idle"

\* The step just made is the toggle-chat handler, run with a session in
\* device state s.
ToggleStep(s) ==
    HandlerStep(app', "TOGGLE_CHAT") /\ ~NoProtocol(app) /\ app.device_state = s

\* The channel-closed callback has been delivered: its callable is pushed.
ClosedDelivered == ctx["io"].pc = "locked" /\ ctx["io"].task.kind = "channel_closed"

\* C34: the toggle-chat handler, run with a session in Listening, requests
\* the closure of the audio channel and leaves the device state as it is;
\* run in Speaking it sets the abort flag and sends abort-speaking, and
\* leaves the device state as it is; once the closed callback is delivered
\* its callable runs in the loop's drain and sets Idle (or the program has
\* ended before).
C34_ToggleClosesOrAborts ==
    /\ [][ToggleStep("listening")
             => /\ <<"loop", "CloseAudioChannel">> \in app'.calls
                /\ ~app'.channel_opened
                /\ app'.close_pending = (app.close_pending \/ app.channel_opened)
                /\ TransitionOps \cap CallsOf(app') = {}
                /\ app'.device_state = "listening"]_vars
    /\ [][ToggleStep("speaking")
             => /\ app'.aborted
                /\ <<"loop", "SendAbortSpeaking">> \in app'.calls
                /\ "CloseAudioChannel" \notin CallsOf(app')
                /\ TransitionOps \cap CallsOf(app') = {}
                /\ app'.device_state = "speaking"]_vars
    /\ ClosedDelivered
          ~> ((TaskStep(app, "channel_closed") /\ app.device_state = "idle") \/ app.halted)

\* C34 witness: the channel was closed in Listening (voice processing still
\* runs), the closed callback was delivered, and its callable has run in
\* the drain and set Idle.
C34_Witness ==
    /\ TaskStep(app, "channel_closed")
    /\ <<"loop", "SetDeviceState(new)">> \in app.calls
    /\ app.device_state = "idle"
    /\ app.listening_mode = "auto_stop"
    /\ app.voice_processing
    /\ ~app.channel_opened /\ ~app.close_pending
    /\ budget = 0

\* The toggle-chat handler has run in Listening: closure requested, the
\* callback owed, the state still Listening.
C34_CloseRequestedReached ==
    /\ HandlerStep(app, "TOGGLE_CHAT")
    /\ <<"loop", "CloseAudioChannel">> \in app.calls
    /\ app.close_pending
    /\ app.device_state = "listening"

\* The toggle-chat handler has run in Speaking: abort flag set, command
\* sent, the state still Speaking and the channel open.
C34_AbortReached ==
    /\ HandlerStep(app, "TOGGLE_CHAT")
    /\ <<"loop", "SendAbortSpeaking">> \in app.calls
    /\ app.aborted
    /\ app.channel_opened
    /\ app.device_state = "speaking"

====
